---- MODULE Spec2Model ----
(***************************************************************************)
(* Verification model of the self-play chess trainer.                      *)
(*                                                                         *)
(*   NeuralNetwork (src/src/lib/ai/stockfish.ts, lines 488-1108): the      *)
(*   per-agent Q-table ("Value Store"), the learning step, the rating and  *)
(*   streak bookkeeping.                                                   *)
(*   GameManager (src/unnamed/part_013): the training orchestrator with    *)
(*   its timer-driven game loop and the quick-train batch.                 *)
(*                                                                         *)
(* Real numbers of the program are kept in fixed point: a rating is a      *)
(* multiple of 1/EloUnit, an exploration rate a multiple of 1/RateUnit, a  *)
(* Q-value a multiple of 1/QUnit.  The rules oracle (chess.js) is outside  *)
(* the repository; it is replaced by a small deterministic game that has   *)
(* wins for both sides and draws.                                          *)
(***************************************************************************)
EXTENDS Integers, Sequences, FiniteSets, TLC

VARIABLES
    whiteAI,          \* GameManager.whiteAI : NeuralNetwork
    blackAI,          \* GameManager.blackAI : NeuralNetwork
    chess,            \* GameManager.chess   : the moves played on the training board
    isRunning,        \* GameManager.isRunning
    timer,            \* GameManager.timer   : handle of the last setTimeout, 0 = null
    pending,          \* the event loop's timers that were set and have neither fired nor been cleared
    moveTimesMs,      \* GameManager.moveTimesMs
    blunderDetector,  \* BlunderDetector.lastMoveNumber (= length of its move history)
    lastMoveEval,     \* GameManager.lastMoveEval, 0 = null, else the move number it describes
    gameRecords,      \* the game-history file written by saveGameToHistory
    stateFile,        \* the agent-state file written by saveDualAIState, 0 = no file
    learningSnapshots,\* the learning-snapshot file written by saveLearningSnapshot
    quickTrainEvents, \* the quick_train_complete payload the last handler emitted
    lastOp,           \* the handler (or public method) that ran last
    apiCalls,         \* number of public-method calls made on the agent (agent-level specifications)
    isBenchmarking,   \* GameManager.isBenchmarking
    stockfish,        \* GameManager.stockfish : StockfishEngine, its timers and the engine's output in flight
    requests,         \* the promises returned by getBestMove: "waiting", a move, or "none"
    benchmark,        \* the run_benchmark handler in progress: where it awaits, its game and board
    benchmarkHistory, \* benchmarkHistory of the benchmark module
    benchEvents,      \* benchmark_error / benchmark_complete events emitted, in order
    fenPair,          \* two game states and their keys (key derivation)
    moveIntervalMs,   \* GameManager.moveIntervalMs
    searchRun,        \* one call of mcts: its arguments, its result and the work it did
    opponentBot       \* GameManager.opponentBot : <<>> = null, else <<the NeuralNetwork>>

vars == <<whiteAI, blackAI, chess, isRunning, timer, pending, moveTimesMs,
          blunderDetector, lastMoveEval, gameRecords, stateFile, learningSnapshots,
          quickTrainEvents, lastOp, apiCalls, isBenchmarking, stockfish, requests,
          benchmark, benchmarkHistory, benchEvents, fenPair, moveIntervalMs,
          searchRun, opponentBot>>

BenchVars == <<isBenchmarking, stockfish, requests, benchmark, benchmarkHistory,
               benchEvents>>
EnvVars == <<BenchVars, fenPair, moveIntervalMs, searchRun>>

-----------------------------------------------------------------------------
(* Bounds of the model *)

\* stand-in for MAX_POSITIONS = 10000 (stockfish.ts:481); the eviction
\* arithmetic floor(0.2 * size) is kept as in the code
MAX_POSITIONS == 5
\* SpecStore: the visit counts held in the table sum to at most
\* MAX_POSITIONS + MaxExtraVisits
MaxExtraVisits == 2
\* the rules oracle of the model: a game without mate is drawn after MaxPly plies
MaxPly == 3
\* Spec: games finished (by the loop or by quick training) from Init
MaxGames == 2
\* SpecKey: largest half-move clock (the full-move number goes one higher)
MaxCounter == 1
\* SpecBench: run_benchmark requests received
MaxBenchmarks == 2
\* SpecEngine, SpecBench: getBestMove calls made on the engine
MaxRequests == 3
\* Spec: a move cycle is explored while it leaves at most this many entries in
\* the mover's game history
MaxTrace == 1
\* agent-level specifications: number of method calls explored from Init
MaxCalls == 5
\* agent-level specifications: games an experienced agent has behind it at Init
PriorGames == 356
\* fixed-point resolutions
EloUnit == 2
RateUnit == 2000000
QUnit == 1000

Max(a, b) == IF a >= b THEN a ELSE b
Min(a, b) == IF a <= b THEN a ELSE b
Abs(a) == IF a >= 0 THEN a ELSE 0 - a

-----------------------------------------------------------------------------
(* NeuralNetwork: constants *)

INITIAL_ELO == 800
ELO_FLOOR == 100
ELO_LOSS == 10
ELO_DRAW == 2
ELO_WIN_BASE == 15
ELO_WIN_SPREAD == 5

INITIAL_EXPLORATION == (3 * RateUnit) \div 10
MIN_EXPLORATION == (5 * RateUnit) \div 100
\* e * EXPLORATION_DECAY, with EXPLORATION_DECAY = 0.995
decayExploration(e) == (e * 995) \div 1000

\* the values 15 + Math.random() * 5 can take, in rating units: [15, 20)
WinJitter == { ELO_WIN_BASE * EloUnit,
               (ELO_WIN_BASE + ELO_WIN_SPREAD) * EloUnit - 1 }

Results == {"win", "loss", "draw"}

-----------------------------------------------------------------------------
(* NeuralNetwork: the Q-table.  A Map keeps insertion order, which decides  *)
(* ties in pruneQTable, so the table is a sequence of                       *)
(* [pos, moves] with moves : move -> [value, visits].                       *)

newNeuralNetwork ==
    [ elo             |-> INITIAL_ELO * EloUnit,
      gamesPlayed     |-> 0,
      wins            |-> 0,
      losses          |-> 0,
      draws           |-> 0,
      explorationRate |-> INITIAL_EXPLORATION,
      currentStreak   |-> 0,
      bestWinStreak   |-> 0,
      bestLossStreak  |-> 0,
      qTable          |-> <<>>,
      gameHistory     |-> <<>>,
      mode            |-> "hybrid" ]

qKeys(q) == { q[i].pos : i \in 1..Len(q) }
qIndex(q, posHash) == CHOOSE i \in 1..Len(q) : q[i].pos = posHash
qMoves(q, posHash) == q[qIndex(q, posHash)].moves

getQValue(ai, posHash, move) ==
    IF posHash \notin qKeys(ai.qTable) THEN 0
    ELSE LET posEntry == qMoves(ai.qTable, posHash)
         IN  IF move \in DOMAIN posEntry THEN posEntry[move].value ELSE 0

RECURSIVE SumVisits(_, _)
SumVisits(moves, S) ==
    IF S = {} THEN 0
    ELSE LET m == CHOOSE x \in S : TRUE
         IN  moves[m].visits + SumVisits(moves, S \ {m})

totalVisits(moves) == SumVisits(moves, DOMAIN moves)

\* Array.prototype.sort with (a, b) => a[1] - b[1]: ascending and stable
RECURSIVE InsertSorted(_, _)
InsertSorted(e, s) ==
    IF s = <<>> THEN <<e>>
    ELSE IF e[2] < Head(s)[2] THEN <<e>> \o s
    ELSE <<Head(s)>> \o InsertSorted(e, Tail(s))

\* mutant: the entries are left in insertion order (the sort is dropped)
sortByVisits_unsorted(entries) == entries

RECURSIVE sortByVisits(_)
sortByVisits(entries) ==
    IF entries = <<>> THEN <<>>
    ELSE InsertSorted(entries[Len(entries)],
                      sortByVisits(SubSeq(entries, 1, Len(entries) - 1)))

\* Math.floor(entries.length * 0.2)
toRemoveCount(n) == (n * 2) \div 10

pruneQTable(q) ==
    LET entries  == [i \in 1..Len(q) |-> <<q[i].pos, totalVisits(q[i].moves)>>]
        sorted   == sortByVisits(entries)
        toRemove == toRemoveCount(Len(entries))
        removed  == { sorted[i][1] : i \in 1..toRemove }
        Keep(e)  == e.pos \notin removed
    IN  SelectSeq(q, Keep)

\* mutant: the capacity test is size > MAX_POSITIONS instead of >=
setQValue_lateCheck(ai, posHash, move, value) ==
    LET q0 == ai.qTable
        q1 == IF posHash \notin qKeys(q0)
              THEN Append(IF Len(q0) > MAX_POSITIONS THEN pruneQTable(q0) ELSE q0,
                          [pos |-> posHash, moves |-> <<>>])
              ELSE q0
        i        == qIndex(q1, posHash)
        posEntry == q1[i].moves
        visits   == IF move \in DOMAIN posEntry THEN posEntry[move].visits + 1 ELSE 1
        entry    == [value |-> value, visits |-> visits]
    IN  [ai EXCEPT !.qTable =
            [q1 EXCEPT ![i].moves = (move :> entry) @@ posEntry]]

setQValue(ai, posHash, move, value) ==
    LET q0 == ai.qTable
        q1 == IF posHash \notin qKeys(q0)
              THEN Append(IF Len(q0) >= MAX_POSITIONS THEN pruneQTable(q0) ELSE q0,
                          [pos |-> posHash, moves |-> <<>>])
              ELSE q0
        i        == qIndex(q1, posHash)
        posEntry == q1[i].moves
        visits   == IF move \in DOMAIN posEntry THEN posEntry[move].visits + 1 ELSE 1
        entry    == [value |-> value, visits |-> visits]
    IN  [ai EXCEPT !.qTable =
            [q1 EXCEPT ![i].moves = (move :> entry) @@ posEntry]]

-----------------------------------------------------------------------------
(* NeuralNetwork: learning step and statistics *)

\* finalReward: win 1.0, loss -1.0, draw 0.1
finalReward(result) ==
    IF result = "win" THEN QUnit
    ELSE IF result = "loss" THEN 0 - QUnit
    ELSE QUnit \div 10

\* LEARNING_RATE = 0.1: oldQ + LEARNING_RATE * (cumulativeReward - oldQ)
learnedValue(oldQ, cumulativeReward) == oldQ + (cumulativeReward - oldQ) \div 10

\* DISCOUNT_FACTOR = 0.9: reward + DISCOUNT_FACTOR * cumulativeReward
discounted(reward, cumulativeReward) == reward + (9 * cumulativeReward) \div 10

\* mutant: the loop runs from the first entry to the last
RECURSIVE learnLoop_forward(_, _, _)
learnLoop_forward(ai, i, cumulativeReward) ==
    IF i = 0 THEN ai
    ELSE LET h    == ai.gameHistory[Len(ai.gameHistory) - i + 1]
             oldQ == getQValue(ai, h.positionHash, h.move)
             newQ == learnedValue(oldQ, cumulativeReward)
         IN  learnLoop_forward(setQValue(ai, h.positionHash, h.move, newQ),
                               i - 1,
                               discounted(h.reward, cumulativeReward))

\* the loop for (i = gameHistory.length - 1; i >= 0; i--) of learn
RECURSIVE learnLoop(_, _, _)
learnLoop(ai, i, cumulativeReward) ==
    IF i = 0 THEN ai
    ELSE LET h    == ai.gameHistory[i]
             oldQ == getQValue(ai, h.positionHash, h.move)
             newQ == learnedValue(oldQ, cumulativeReward)
         IN  learnLoop(setQValue(ai, h.positionHash, h.move, newQ),
                       i - 1,
                       discounted(h.reward, cumulativeReward))

\* mutant: the history is not cleared after the loop
learn_keepHistory(ai, result) ==
    LET after == learnLoop(ai, Len(ai.gameHistory), finalReward(result))
    IN  [after EXCEPT
            !.explorationRate = Max(MIN_EXPLORATION, decayExploration(@))]

\* mutant: the decayed rate is not floored at MIN_EXPLORATION
learn_noFloor(ai, result) ==
    LET after == learnLoop(ai, Len(ai.gameHistory), finalReward(result))
    IN  [after EXCEPT
            !.gameHistory = <<>>,
            !.explorationRate = decayExploration(@)]

learn(ai, result) ==
    LET after == learnLoop(ai, Len(ai.gameHistory), finalReward(result))
    IN  [after EXCEPT
            !.gameHistory = <<>>,
            !.explorationRate = Max(MIN_EXPLORATION, decayExploration(@))]

\* mutant: a loss subtracts without the floor
updateStats_noFloor(ai, result, jitter) ==
    IF result = "win" THEN
        LET streak == IF ai.currentStreak > 0 THEN ai.currentStreak + 1 ELSE 1
        IN  [ai EXCEPT !.gamesPlayed = @ + 1,
                       !.wins = @ + 1,
                       !.elo = @ + jitter,
                       !.currentStreak = streak,
                       !.bestWinStreak = Max(@, streak)]
    ELSE IF result = "loss" THEN
        LET streak == IF ai.currentStreak < 0 THEN ai.currentStreak - 1 ELSE 0 - 1
        IN  [ai EXCEPT !.gamesPlayed = @ + 1,
                       !.losses = @ + 1,
                       !.elo = @ - ELO_LOSS * EloUnit,
                       !.currentStreak = streak,
                       !.bestLossStreak = Max(@, Abs(streak))]
    ELSE
        [ai EXCEPT !.gamesPlayed = @ + 1,
                   !.draws = @ + 1,
                   !.elo = @ + ELO_DRAW * EloUnit,
                   !.currentStreak = 0]

\* mutant: a win adds one to the streak whatever its sign
updateStats_streakNotReopened(ai, result, jitter) ==
    IF result = "win" THEN
        LET streak == ai.currentStreak + 1
        IN  [ai EXCEPT !.gamesPlayed = @ + 1,
                       !.wins = @ + 1,
                       !.elo = @ + jitter,
                       !.currentStreak = streak,
                       !.bestWinStreak = Max(@, streak)]
    ELSE IF result = "loss" THEN
        LET streak == IF ai.currentStreak < 0 THEN ai.currentStreak - 1 ELSE 0 - 1
        IN  [ai EXCEPT !.gamesPlayed = @ + 1,
                       !.losses = @ + 1,
                       !.elo = Max(ELO_FLOOR * EloUnit, @ - ELO_LOSS * EloUnit),
                       !.currentStreak = streak,
                       !.bestLossStreak = Max(@, Abs(streak))]
    ELSE
        [ai EXCEPT !.gamesPlayed = @ + 1,
                   !.draws = @ + 1,
                   !.elo = @ + ELO_DRAW * EloUnit,
                   !.currentStreak = 0]

\* jitter is the value of 15 + Math.random() * 5 (used by a win only)
updateStats(ai, result, jitter) ==
    IF result = "win" THEN
        LET streak == IF ai.currentStreak > 0 THEN ai.currentStreak + 1 ELSE 1
        IN  [ai EXCEPT !.gamesPlayed = @ + 1,
                       !.wins = @ + 1,
                       !.elo = @ + jitter,
                       !.currentStreak = streak,
                       !.bestWinStreak = Max(@, streak)]
    ELSE IF result = "loss" THEN
        LET streak == IF ai.currentStreak < 0 THEN ai.currentStreak - 1 ELSE 0 - 1
        IN  [ai EXCEPT !.gamesPlayed = @ + 1,
                       !.losses = @ + 1,
                       !.elo = Max(ELO_FLOOR * EloUnit, @ - ELO_LOSS * EloUnit),
                       !.currentStreak = streak,
                       !.bestLossStreak = Max(@, Abs(streak))]
    ELSE
        [ai EXCEPT !.gamesPlayed = @ + 1,
                   !.draws = @ + 1,
                   !.elo = @ + ELO_DRAW * EloUnit,
                   !.currentStreak = 0]

\* this.gameHistory.push({ positionHash, move, reward })
recordMove(ai, posHash, move, reward) ==
    [ai EXCEPT !.gameHistory =
        Append(@, [positionHash |-> posHash, move |-> move, reward |-> reward])]

-----------------------------------------------------------------------------
(* The orchestrator's variables at construction (no saved state on disk) *)

\* no quick_train_complete event
NoQuickTrainEvent == [games |-> 0, gamesPlayed |-> 0,
                      whiteWins |-> 0, blackWins |-> 0, draws |-> 0]

\* no key has been derived
NoFenPair == [a |-> 0, b |-> 0, derived |-> FALSE, keyA |-> <<>>, keyB |-> <<>>,
              bookA |-> <<>>, bookB |-> <<>>]

\* mcts has not been called
NoSearch == [moves |-> {}, numSimulations |-> 0, done |-> FALSE, move |-> "null",
             root |-> FALSE, expanded |-> 0, simulations |-> 0]

\* private moveIntervalMs: number = 800
DEFAULT_INTERVAL == 800
\* the delay of the timer gameLoop sets after a finished game
POST_GAME_DELAY == 3000

\* this.stockfish = null
NoEngine == [state |-> "null", pendingResolve |-> 0, timeouts |-> {}, inflight |-> {}]

\* no run_benchmark handler is in progress
NoBenchmark == [pc |-> "idle", game |-> 0, chess |-> <<>>, request |-> 0]

ManagerInit ==
    /\ chess = <<>>
    /\ isRunning = FALSE
    /\ timer = 0
    /\ pending = {}
    /\ moveTimesMs = <<>>
    /\ blunderDetector = 0
    /\ lastMoveEval = 0
    /\ gameRecords = <<>>
    /\ stateFile = 0
    /\ learningSnapshots = <<>>
    /\ quickTrainEvents = NoQuickTrainEvent
    /\ lastOp = "new"
    /\ apiCalls = 0
    /\ isBenchmarking = FALSE
    /\ stockfish = NoEngine
    /\ requests = <<>>
    /\ benchmark = NoBenchmark
    /\ benchmarkHistory = <<>>
    /\ benchEvents = <<>>
    /\ opponentBot = <<>>

ManagerVars == <<chess, isRunning, timer, pending, moveTimesMs, blunderDetector,
                 lastMoveEval, gameRecords, stateFile, learningSnapshots,
                 quickTrainEvents, BenchVars, opponentBot>>

\* the agent after n finished games with the given result in which it recorded
\* no move: updateStats and learn are called once per game
oneGame(ai, result) == learn(updateStats(ai, result, ELO_WIN_BASE * EloUnit), result)

\* (n games as two halves; the test on gamesPlayed only makes the evaluator
\* compute ai before it goes on)
RECURSIVE afterGames(_, _, _)
afterGames(ai, n, result) ==
    IF n = 0 \/ ai.gamesPlayed < 0 THEN ai
    ELSE IF n % 2 = 1 THEN oneGame(afterGames(ai, n - 1, result), result)
    ELSE afterGames(afterGames(ai, n \div 2, result), n \div 2, result)

-----------------------------------------------------------------------------
(* SpecStore: one agent's Q-table under any sequence of setQValue calls *)

\* Position keys are opaque strings; they are numbered here, and a key that
\* is not in the table is always the smallest such number (the table's
\* behaviour does not depend on the names of its keys).
StorePositions == 1..(MAX_POSITIONS + 1)
\* the legal moves of a position: two in the first two, one in the others
StoreMoves(posHash) == IF posHash <= 2 THEN {"e4", "d4"} ELSE {"e4"}
StoreValues == {QUnit}

StoreInit ==
    /\ whiteAI = newNeuralNetwork
    /\ blackAI = newNeuralNetwork
    /\ ManagerInit
    /\ fenPair = NoFenPair
    /\ moveIntervalMs = DEFAULT_INTERVAL
    /\ searchRun = NoSearch

FreshPosition ==
    CHOOSE p \in StorePositions :
        /\ p \notin qKeys(whiteAI.qTable)
        /\ \A r \in StorePositions : r < p => r \in qKeys(whiteAI.qTable)

RECURSIVE tableVisits(_)
tableVisits(q) ==
    IF q = <<>> THEN 0 ELSE totalVisits(Head(q).moves) + tableVisits(Tail(q))

StoreUpdate ==
    \E posHash \in qKeys(whiteAI.qTable) \cup {FreshPosition}, value \in StoreValues :
      \E move \in StoreMoves(posHash) :
        /\ tableVisits(whiteAI.qTable) < MAX_POSITIONS + MaxExtraVisits
        /\ whiteAI' = setQValue(whiteAI, posHash, move, value)
        /\ lastOp' = "setQValue"
        /\ UNCHANGED <<blackAI, ManagerVars, apiCalls, fenPair, moveIntervalMs, searchRun>>

StoreNext == StoreUpdate

SpecStore == StoreInit /\ [][StoreNext]_vars

-----------------------------------------------------------------------------
(* SpecLearn: one agent under any sequence of recorded decisions and learn  *)
(* calls, from a new agent or from one with PriorGames games behind it      *)

LearnPositions == {1, 2}
\* evaluateMove: the immediate heuristic reward of a move
LearnReward(move) == IF move = "d4" THEN QUnit \div 10 ELSE 0

LearnInit ==
    /\ whiteAI \in {newNeuralNetwork, afterGames(newNeuralNetwork, PriorGames, "loss")}
    /\ blackAI = newNeuralNetwork
    /\ ManagerInit
    /\ fenPair = NoFenPair
    /\ moveIntervalMs = DEFAULT_INTERVAL
    /\ searchRun = NoSearch

\* a decision that is not a book move: one entry is pushed on gameHistory
LearnDecide ==
    \E posHash \in LearnPositions :
      \E move \in StoreMoves(posHash) :
        /\ apiCalls < MaxCalls
        /\ whiteAI' = recordMove(whiteAI, posHash, move, LearnReward(move))
        /\ lastOp' = "decideMove"
        /\ apiCalls' = apiCalls + 1
        /\ UNCHANGED <<blackAI, ManagerVars, fenPair, moveIntervalMs, searchRun>>

LearnLearn ==
    \E result \in Results :
        /\ apiCalls < MaxCalls
        /\ whiteAI' = learn(whiteAI, result)
        /\ lastOp' = IF lastOp \in {"learn", "learn_again"} THEN "learn_again" ELSE "learn"
        /\ apiCalls' = apiCalls + 1
        /\ UNCHANGED <<blackAI, ManagerVars, fenPair, moveIntervalMs, searchRun>>

LearnNext == LearnDecide \/ LearnLearn

SpecLearn == LearnInit /\ [][LearnNext]_vars

-----------------------------------------------------------------------------
(* SpecStats: the two agents under any sequence of game outcomes, applied   *)
(* to the pair as the orchestrator applies them at the end of a game        *)

StatsInit ==
    /\ \/ whiteAI = newNeuralNetwork /\ blackAI = newNeuralNetwork
       \/ /\ whiteAI = afterGames(newNeuralNetwork, PriorGames, "loss")
          /\ blackAI = afterGames(newNeuralNetwork, PriorGames, "win")
    /\ ManagerInit
    /\ fenPair = NoFenPair
    /\ moveIntervalMs = DEFAULT_INTERVAL
    /\ searchRun = NoSearch

StatsUnchanged == UNCHANGED <<ManagerVars, fenPair, moveIntervalMs, searchRun>>

StatsWhiteWins ==
    \E jitter \in WinJitter :
        /\ apiCalls < MaxCalls
        /\ whiteAI' = updateStats(whiteAI, "win", jitter)
        /\ blackAI' = updateStats(blackAI, "loss", 0)
        /\ lastOp' = "white"
        /\ apiCalls' = apiCalls + 1
        /\ StatsUnchanged

StatsBlackWins ==
    \E jitter \in WinJitter :
        /\ apiCalls < MaxCalls
        /\ blackAI' = updateStats(blackAI, "win", jitter)
        /\ whiteAI' = updateStats(whiteAI, "loss", 0)
        /\ lastOp' = "black"
        /\ apiCalls' = apiCalls + 1
        /\ StatsUnchanged

StatsDraw ==
    /\ apiCalls < MaxCalls
    /\ whiteAI' = updateStats(whiteAI, "draw", 0)
    /\ blackAI' = updateStats(blackAI, "draw", 0)
    /\ lastOp' = "draw"
    /\ apiCalls' = apiCalls + 1
    /\ StatsUnchanged

StatsNext == StatsWhiteWins \/ StatsBlackWins \/ StatsDraw

SpecStats == StatsInit /\ [][StatsNext]_vars

-----------------------------------------------------------------------------
(* The rules oracle.  chess.js is not part of the repository; the model     *)
(* plays a game with two moves in every position that is not terminal: a   *)
(* quiet move and a mating move.  A game without mate is drawn after       *)
(* MaxPly plies.  A board is the sequence of the moves played on it.       *)

NoMove == "null"
QuietMove == "e4"
MateMove == "Qh7#"

turn(c) == IF Len(c) % 2 = 0 THEN "w" ELSE "b"
isCheckmate(c) == c # <<>> /\ c[Len(c)] = MateMove
isDraw(c) == ~isCheckmate(c) /\ Len(c) >= MaxPly
isGameOver(c) == isCheckmate(c) \/ isDraw(c)
legalMoves(c) == IF isGameOver(c) THEN {} ELSE {QuietMove, MateMove}

\* chess.fen(): placement, side to move, castling, en passant, the two counters
fen(c) == [ placement |-> c, turn |-> turn(c), castling |-> "KQkq", ep |-> "-",
            halfmove |-> Len(c), fullmove |-> 1 + (Len(c) \div 2) ]

\* fen.split(' '): the six fields of a FEN
fenFields(f) == <<f.placement, f.turn, f.castling, f.ep, f.halfmove, f.fullmove>>

\* mutant: the key keeps every field
hashFen_allFields(f) == fenFields(f)

\* fen.split(' ').slice(0, 4).join(' ')
hashFen(f) == SubSeq(fenFields(f), 1, 4)
hashPosition(c) == hashFen(fen(c))
simplifyFen(f) == SubSeq(fenFields(f), 1, 4)

\* OPENING_BOOK: the starting position is in the book
isInBook(f) == simplifyFen(f) = <<(<<>>), "w", "KQkq", "-">>
getBookMove(f) == IF isInBook(f) THEN QuietMove ELSE NoMove

\* evaluateMove: '#' in the SAN adds 1.0
evaluateMove(move) == IF move = MateMove THEN QUnit ELSE 0

-----------------------------------------------------------------------------
(* NeuralNetwork: the decision policy.  Math.random() and the tree search   *)
(* are choices: an operator gives the set of results [move, ai] a call can  *)
(* have, ai being the agent after the call.                                 *)

\* values Math.random() can take in the book gate, in units of 1/RateUnit
RandomDraws == {0, RateUnit \div 10, RateUnit - 1}

\* mutant: the book move is pushed on the game history like any other
bookDecision_recorded(ai, c, branch) ==
    [ move   |-> getBookMove(fen(c)),
      ai     |-> recordMove(ai, hashPosition(c), getBookMove(fen(c)),
                            evaluateMove(getBookMove(fen(c)))),
      branch |-> branch ]

\* return bookMove: nothing is pushed on the game history
bookDecision(ai, c, branch) ==
    [move |-> getBookMove(fen(c)), ai |-> ai, branch |-> branch]

\* mutant: the explore branch pushes its move and falls through to the
\* exploit branch, which pushes again
policyDecision_twice(ai, c, m, branch) ==
    [ move   |-> m,
      ai     |-> recordMove(recordMove(ai, hashPosition(c), m, evaluateMove(m)),
                            hashPosition(c), m, evaluateMove(m)),
      branch |-> branch ]

\* this.gameHistory.push({ positionHash: posHash, move, reward }); return move
policyDecision(ai, c, m, branch) ==
    [ move   |-> m,
      ai     |-> recordMove(ai, hashPosition(c), m, evaluateMove(m)),
      branch |-> branch ]

\* decideMove: the book branch is taken when the position is in the book and
\* Math.random() > explorationRate * 0.5; otherwise epsilon-greedy, whose
\* explore branch can return any legal move (every weight 1 + evaluateMove
\* is positive)
decideMove(ai, c) ==
    IF legalMoves(c) = {} THEN {[move |-> NoMove, ai |-> ai, branch |-> "no_move"]}
    ELSE UNION {
           IF /\ isInBook(fen(c))
              /\ 2 * u > ai.explorationRate
              /\ getBookMove(fen(c)) \in legalMoves(c)
           THEN {bookDecision(ai, c, "book_gated")}
           ELSE {policyDecision(ai, c, m, "epsilon_greedy") : m \in legalMoves(c)} :
           u \in RandomDraws }

\* private mctsSimulations: number = 30
DEFAULT_MCTS_SIMULATIONS == 30

\* the search proper of mcts, on a position with the legal moves moves: the
\* root is created, every iteration runs one simulation and expands one node
\* unless the node it selected is a finished game, and the result is one of
\* the root's children (the random playouts decide which)
treeSearch(moves, numSimulations) ==
    { [move |-> m, root |-> TRUE, expanded |-> e, simulations |-> numSimulations] :
        m \in moves,
        e \in Min(numSimulations, Cardinality(moves))..numSimulations }

\* mutant: a position with one legal move is searched like any other
mcts_noShortcut(moves, numSimulations) ==
    IF moves = {}
    THEN {[move |-> NoMove, root |-> FALSE, expanded |-> 0, simulations |-> 0]}
    ELSE treeSearch(moves, numSimulations)

\* mcts(fen, numSimulations, qValueBias): the runs a call can make, each with
\* the move it returns, whether it created the root, and the numbers of
\* nodes it expanded and of simulations it ran
mcts(moves, numSimulations) ==
    IF moves = {}
    THEN {[move |-> NoMove, root |-> FALSE, expanded |-> 0, simulations |-> 0]}
    ELSE IF Cardinality(moves) = 1
    THEN {[move |-> m, root |-> FALSE, expanded |-> 0, simulations |-> 0] : m \in moves}
    ELSE treeSearch(moves, numSimulations)

\* the moves mcts can return on the board c
mctsMoves(c) == { r.move : r \in mcts(legalMoves(c), DEFAULT_MCTS_SIMULATIONS) }

\* mutant: the search can end without a result, and its result is returned
\* as it is, without the fallback to decideMove
decideMoveWithMCTS_noFallback(ai, c) ==
    IF legalMoves(c) = {} THEN {[move |-> NoMove, ai |-> ai, branch |-> "no_move"]}
    ELSE IF isInBook(fen(c)) /\ getBookMove(fen(c)) \in legalMoves(c)
    THEN {bookDecision(ai, c, "book")}
    ELSE { IF m # NoMove THEN policyDecision(ai, c, m, "mcts")
           ELSE [move |-> NoMove, ai |-> ai, branch |-> "mcts"] :
           m \in mctsMoves(c) \cup {NoMove} }

\* decideMoveWithMCTS: the book branch has no probability test; a search
\* that returns no move falls back to decideMove
decideMoveWithMCTS(ai, c) ==
    IF legalMoves(c) = {} THEN {[move |-> NoMove, ai |-> ai, branch |-> "no_move"]}
    ELSE IF isInBook(fen(c)) /\ getBookMove(fen(c)) \in legalMoves(c)
    THEN {bookDecision(ai, c, "book")}
    ELSE UNION { IF m # NoMove THEN {policyDecision(ai, c, m, "mcts")}
                 ELSE decideMove(ai, c) :
                 m \in mctsMoves(c) }

\* setMode(mode)
AIModes == {"q-learning", "mcts", "hybrid"}
setMode(ai, mode) == [ai EXCEPT !.mode = mode]

decideMoveAuto(ai, c) ==
    IF ai.mode \in {"mcts", "hybrid"} THEN decideMoveWithMCTS(ai, c)
    ELSE decideMove(ai, c)

\* exportState: the rating is written as Math.floor(elo)
exportState(ai) ==
    [ elo            |-> ai.elo \div EloUnit,
      gamesPlayed    |-> ai.gamesPlayed,
      wins           |-> ai.wins,
      losses         |-> ai.losses,
      draws          |-> ai.draws,
      qTable         |-> ai.qTable,
      currentStreak  |-> ai.currentStreak,
      bestWinStreak  |-> ai.bestWinStreak,
      bestLossStreak |-> ai.bestLossStreak ]

\* Math.max(MIN_EXPLORATION, e * Math.pow(EXPLORATION_DECAY, n)): the floor
\* is taken after every factor, which gives the same value, and the n factors
\* are taken as two halves (the test on e only makes the evaluator compute e
\* before it goes on)
RECURSIVE powDecay(_, _)
powDecay(e, n) ==
    IF n = 0 \/ e < 0 THEN e
    ELSE IF n % 2 = 1
    THEN Max(MIN_EXPLORATION, decayExploration(powDecay(e, n - 1)))
    ELSE powDecay(powDecay(e, n \div 2), n \div 2)

\* importState: the exploration rate is computed from gamesPlayed; the game
\* history and the mode are not touched
importState(ai, state) ==
    [ai EXCEPT !.elo             = state.elo * EloUnit,
               !.gamesPlayed     = state.gamesPlayed,
               !.wins            = state.wins,
               !.losses          = state.losses,
               !.draws           = state.draws,
               !.currentStreak   = state.currentStreak,
               !.bestWinStreak   = state.bestWinStreak,
               !.bestLossStreak  = state.bestLossStreak,
               !.qTable          = state.qTable,
               !.explorationRate =
                   powDecay(INITIAL_EXPLORATION, state.gamesPlayed)]

-----------------------------------------------------------------------------
(* persistence.ts *)

MAX_GAMES_STORED == 50
MAX_SNAPSHOTS_STORED == 100

lastN(s, n) == IF Len(s) <= n THEN s ELSE SubSeq(s, Len(s) - n + 1, Len(s))

RECURSIVE maxId(_)
maxId(records) ==
    IF records = <<>> THEN 0 ELSE Max(Head(records).id, maxId(Tail(records)))

saveGameToHistory(records, result, moves) ==
    lastN(Append(records, [id |-> IF Len(records) > 0 THEN maxId(records) + 1 ELSE 1,
                           result |-> result, moves |-> Len(moves)]),
          MAX_GAMES_STORED)

saveLearningSnapshot(snapshots, ai) ==
    lastN(Append(snapshots, [game |-> ai.gamesPlayed, positionsLearned |-> Len(ai.qTable)]),
          MAX_SNAPSHOTS_STORED)

saveDualAIState(w, b) == [white |-> exportState(w), black |-> exportState(b)]

-----------------------------------------------------------------------------
(* GameManager *)

\* setTimeout: a new timer, which this.timer then refers to
newTimerId(pend) ==
    CHOOSE i \in 1..(Cardinality(pend) + 1) : \A t \in pend : t.id # i

setTimeout(pend, kind, delay) ==
    pend \cup {[id |-> newTimerId(pend), kind |-> kind, delay |-> delay]}

\* clearTimeout(this.timer)
clearTimeout(pend, handle) == { t \in pend : t.id # handle }

winnerOf(c) ==
    IF isCheckmate(c) THEN (IF turn(c) = "w" THEN "black" ELSE "white") ELSE "draw"

\* mutant: when black wins, white's statistics are not updated
applyOutcome_loserSkipped(w, b, winner, jitter) ==
    IF winner = "white" THEN
        [white |-> learn(updateStats(w, "win", jitter), "win"),
         black |-> learn(updateStats(b, "loss", jitter), "loss")]
    ELSE IF winner = "black" THEN
        [white |-> learn(w, "loss"),
         black |-> learn(updateStats(b, "win", jitter), "win")]
    ELSE
        [white |-> learn(updateStats(w, "draw", jitter), "draw"),
         black |-> learn(updateStats(b, "draw", jitter), "draw")]

\* the updateStats / learn calls made for a finished game (handleGameOver,
\* repeated in quickTrain)
applyOutcome(w, b, winner, jitter) ==
    IF winner = "white" THEN
        [white |-> learn(updateStats(w, "win", jitter), "win"),
         black |-> learn(updateStats(b, "loss", jitter), "loss")]
    ELSE IF winner = "black" THEN
        [white |-> learn(updateStats(w, "loss", jitter), "loss"),
         black |-> learn(updateStats(b, "win", jitter), "win")]
    ELSE
        [white |-> learn(updateStats(w, "draw", jitter), "draw"),
         black |-> learn(updateStats(b, "draw", jitter), "draw")]

\* return this.opponentBot || this.blackAI on black's turn
getCurrentAI(c) ==
    IF turn(c) = "w" THEN whiteAI
    ELSE IF opponentBot # <<>> THEN opponentBot[1]
    ELSE blackAI

\* which file operations of a handleGameOver call succeed: the write of the
\* agent-state file, the read and the write of the game-history file, the
\* read and the write of the learning-snapshot file
DiskOutcomes == [stateWrite : BOOLEAN, historyRead : BOOLEAN, historyWrite : BOOLEAN,
                 snapshotRead : BOOLEAN, snapshotWrite : BOOLEAN]
DiskOk == [stateWrite |-> TRUE, historyRead |-> TRUE, historyWrite |-> TRUE,
           snapshotRead |-> TRUE, snapshotWrite |-> TRUE]

\* a load function returns [] when its read throws; a save function leaves
\* the file as it is when its write throws (the catch blocks of persistence.ts)
loaded(file, ok) == IF ok THEN file ELSE <<>>
written(file, content, ok) == IF ok THEN content ELSE file

\* handleGameOver, on the board c, with the file operations succeeding as ok says
handleGameOver(c, ok) ==
    \E jitter \in WinJitter :
        LET winner == winnerOf(c)
            after  == applyOutcome(whiteAI, blackAI, winner, jitter)
        IN  /\ whiteAI' = after.white
            /\ blackAI' = after.black
            /\ stateFile' = written(stateFile, saveDualAIState(after.white, after.black),
                                    ok.stateWrite)
            /\ gameRecords' =
                  written(gameRecords,
                          saveGameToHistory(loaded(gameRecords, ok.historyRead), winner, c),
                          ok.historyWrite)
            /\ learningSnapshots' =
                  written(learningSnapshots,
                          saveLearningSnapshot(loaded(learningSnapshots, ok.snapshotRead),
                                               after.white),
                          ok.snapshotWrite)

\* mutant: a failed file operation throws out of handleGameOver, and the rest
\* of the game-over branch does not run
gameOver_throws(c, pend, ok) ==
    /\ handleGameOver(c, ok)
    /\ chess' = c
    /\ opponentBot' = opponentBot
    /\ IF ok = DiskOk
       THEN /\ moveTimesMs' = <<>>
            /\ blunderDetector' = 0
            /\ lastMoveEval' = 0
            /\ pending' = setTimeout(pend, "restart", POST_GAME_DELAY)
            /\ timer' = newTimerId(pend)
       ELSE /\ pending' = pend
            /\ UNCHANGED <<moveTimesMs, blunderDetector, lastMoveEval, timer>>

\* the game-over branch of gameLoop on the finished board c
gameOver(c, pend, ok) ==
    /\ handleGameOver(c, ok)
    /\ opponentBot' = opponentBot
    /\ moveTimesMs' = <<>>
    /\ blunderDetector' = 0
    /\ lastMoveEval' = 0
    /\ chess' = c
    /\ pending' = setTimeout(pend, "restart", POST_GAME_DELAY)
    /\ timer' = newTimerId(pend)

\* the move cycle of gameLoop on the board c from the decision d on; applied
\* says whether chess.move(move) returns (TRUE) or throws (FALSE, the catch
\* branch)
gameLoopStep(c, pend, d, applied) ==
        /\ whiteAI' = IF turn(c) = "w" THEN d.ai ELSE whiteAI
        /\ blackAI' = IF turn(c) = "b" /\ opponentBot = <<>> THEN d.ai ELSE blackAI
        /\ opponentBot' = IF turn(c) = "b" /\ opponentBot # <<>> THEN <<d.ai>>
                          ELSE opponentBot
        /\ IF d.move = NoMove
           THEN /\ chess' = c
                /\ UNCHANGED <<moveTimesMs, blunderDetector, lastMoveEval>>
           ELSE IF applied
           THEN /\ moveTimesMs' = Append(moveTimesMs, 0)
                /\ chess' = Append(c, d.move)
                /\ blunderDetector' = blunderDetector + 1
                /\ lastMoveEval' = blunderDetector + 1
           ELSE /\ chess' = <<>>
                /\ moveTimesMs' = <<>>
                /\ blunderDetector' = 0
                /\ UNCHANGED lastMoveEval
        /\ pending' = setTimeout(pend, "move", moveIntervalMs)
        /\ timer' = newTimerId(pend)
        /\ UNCHANGED <<stateFile, gameRecords, learningSnapshots>>

\* the move cycle of gameLoop on the board c, which is not finished
gameLoopCycle(c, pend, applied) ==
    \E d \in decideMoveAuto(getCurrentAI(c), c) :
        /\ Len(d.ai.gameHistory) <= MaxTrace
        /\ gameLoopStep(c, pend, d, applied)

\* gameLoop after its test of isRunning, on the board c and with the timers
\* pend of the event loop
gameLoop(c, pend) ==
    IF isGameOver(c) THEN
        /\ whiteAI.gamesPlayed < MaxGames
        /\ gameOver(c, pend, DiskOk)
    ELSE gameLoopCycle(c, pend, TRUE)

GameLoopVars == <<whiteAI, blackAI, chess, moveTimesMs, blunderDetector, lastMoveEval,
                  stateFile, gameRecords, learningSnapshots, pending, timer,
                  opponentBot>>

MIN_INTERVAL == 50
MAX_INTERVAL == 2000

\* mutant: the delay is capped from above only
setSpeed_noLowerBound(ms) == Min(MAX_INTERVAL, ms)

\* setSpeed(ms): Math.max(50, Math.min(2000, ms))
setSpeed(ms) == Max(MIN_INTERVAL, Min(MAX_INTERVAL, ms))

\* mutant: start without the test of isRunning
start_noGuard ==
    /\ isRunning' = TRUE
    /\ gameLoop(chess, pending)

start ==
    IF isRunning THEN UNCHANGED <<isRunning, GameLoopVars>>
    ELSE /\ isRunning' = TRUE
         /\ gameLoop(chess, pending)

\* mutant: pause forgets clearTimeout
pause_keepTimer ==
    /\ isRunning' = FALSE
    /\ pending' = pending
    /\ timer' = 0

pause ==
    /\ isRunning' = FALSE
    /\ pending' = clearTimeout(pending, timer)
    /\ timer' = 0

\* mutant: stop pauses and leaves the board as it is
stop_noReset ==
    /\ pause
    /\ moveTimesMs' = <<>>
    /\ blunderDetector' = 0
    /\ lastMoveEval' = 0
    /\ chess' = chess

stop ==
    /\ pause
    /\ chess' = <<>>
    /\ moveTimesMs' = <<>>
    /\ blunderDetector' = 0
    /\ lastMoveEval' = 0

\* the inner while loop of quickTrain: the boards and agents a game can end with
RECURSIVE playToEnd(_, _, _)
playToEnd(w, b, c) ==
    IF isGameOver(c) THEN {[white |-> w, black |-> b, chess |-> c]}
    ELSE UNION {
           IF d.move = NoMove
           THEN {[white |-> w, black |-> b, chess |-> c]}
           ELSE playToEnd(IF turn(c) = "w" THEN d.ai ELSE w,
                          IF turn(c) = "w" THEN b ELSE d.ai,
                          Append(c, d.move)) :
           d \in decideMoveAuto(IF turn(c) = "w" THEN w ELSE b, c) }

\* one pass of the for loop of quickTrain
quickTrainGame(st) ==
    { LET winner == winnerOf(end.chess)
          after  == applyOutcome(end.white, end.black, winner, jitter)
      IN  [ white     |-> after.white,
            black     |-> after.black,
            whiteWins |-> st.whiteWins + (IF winner = "white" THEN 1 ELSE 0),
            blackWins |-> st.blackWins + (IF winner = "black" THEN 1 ELSE 0),
            draws     |-> st.draws + (IF winner = "draw" THEN 1 ELSE 0),
            records   |-> saveGameToHistory(st.records, winner, end.chess) ] :
      end \in playToEnd(st.white, st.black, <<>>), jitter \in WinJitter }

\* mutant: the loop runs one game too many
RECURSIVE quickTrainLoop_extraGame(_, _)
quickTrainLoop_extraGame(st, n) ==
    IF n < 0 THEN {st}
    ELSE UNION { quickTrainLoop_extraGame(next, n - 1) : next \in quickTrainGame(st) }

RECURSIVE quickTrainLoop(_, _)
quickTrainLoop(st, n) ==
    IF n = 0 THEN {st}
    ELSE UNION { quickTrainLoop(next, n - 1) : next \in quickTrainGame(st) }

\* quickTrain(numGames)
quickTrain(numGames) ==
    \E fin \in quickTrainLoop([white |-> whiteAI, black |-> blackAI, whiteWins |-> 0,
                               blackWins |-> 0, draws |-> 0, records |-> gameRecords],
                              numGames) :
        /\ IF isRunning THEN pause ELSE UNCHANGED <<isRunning, pending, timer>>
        /\ whiteAI' = fin.white
        /\ blackAI' = fin.black
        /\ gameRecords' = fin.records
        /\ stateFile' = saveDualAIState(fin.white, fin.black)
        /\ chess' = <<>>
        /\ quickTrainEvents' = [ games |-> numGames, gamesPlayed |-> numGames,
                                 whiteWins |-> fin.whiteWins,
                                 blackWins |-> fin.blackWins,
                                 draws |-> fin.draws ]
        /\ UNCHANGED <<moveTimesMs, blunderDetector, lastMoveEval, learningSnapshots>>

\* Math.min(Math.max(1, numGames || 5), 50)
clampGames(numGames) == Min(Max(1, IF numGames = 0 THEN 5 ELSE numGames), 50)

-----------------------------------------------------------------------------
(* Spec: the orchestrator under any sequence of commands and timer firings *)

Init ==
    /\ whiteAI = newNeuralNetwork
    /\ blackAI = newNeuralNetwork
    /\ ManagerInit
    /\ fenPair = NoFenPair
    /\ moveIntervalMs = DEFAULT_INTERVAL
    /\ searchRun = NoSearch

\* socket handler 'training_start'
TrainingStart ==
    /\ start
    /\ lastOp' = "start"
    /\ quickTrainEvents' = NoQuickTrainEvent
    /\ UNCHANGED <<apiCalls, EnvVars>>

\* socket handler 'training_pause'
TrainingPause ==
    /\ pause
    /\ lastOp' = "pause"
    /\ UNCHANGED <<whiteAI, blackAI, chess, moveTimesMs, blunderDetector, lastMoveEval,
                   gameRecords, stateFile, learningSnapshots, apiCalls, EnvVars,
                   opponentBot>>
    /\ quickTrainEvents' = NoQuickTrainEvent

\* socket handler 'training_stop'
TrainingStop ==
    /\ stop
    /\ lastOp' = "stop"
    /\ quickTrainEvents' = NoQuickTrainEvent
    /\ UNCHANGED <<whiteAI, blackAI, gameRecords, stateFile, learningSnapshots, apiCalls,
                   EnvVars, opponentBot>>

\* socket handler 'quick_train'
QuickTrain ==
    \E numGames \in (0 - 1)..MaxGames :
        /\ whiteAI.gamesPlayed + clampGames(numGames) <= MaxGames
        /\ quickTrain(clampGames(numGames))
        /\ lastOp' = "quick_train"
        /\ UNCHANGED <<apiCalls, EnvVars, opponentBot>>

\* the callback of the timer set at the end of a move cycle: gameLoop()
TimerMove ==
    \E t \in pending :
        /\ t.kind = "move"
        /\ IF isRunning
           THEN gameLoop(chess, pending \ {t})
           ELSE /\ pending' = pending \ {t}
                /\ UNCHANGED <<whiteAI, blackAI, chess, moveTimesMs, blunderDetector,
                               lastMoveEval, stateFile, gameRecords, learningSnapshots,
                               timer, opponentBot>>
        /\ lastOp' = "timer_move"
        /\ quickTrainEvents' = NoQuickTrainEvent
        /\ UNCHANGED <<isRunning, apiCalls, EnvVars>>

\* mutant: the callback goes into gameLoop without chess.reset()
TimerRestart_noReset ==
    \E t \in pending :
        /\ t.kind = "restart"
        /\ IF isRunning
           THEN gameLoop(chess, pending \ {t})
           ELSE /\ pending' = pending \ {t}
                /\ UNCHANGED <<whiteAI, blackAI, chess, moveTimesMs, blunderDetector,
                               lastMoveEval, stateFile, gameRecords, learningSnapshots,
                               timer, opponentBot>>
        /\ lastOp' = "timer_restart"
        /\ quickTrainEvents' = NoQuickTrainEvent
        /\ UNCHANGED <<isRunning, apiCalls, EnvVars>>

\* the callback of the timer set after a finished game: reset the board, gameLoop()
TimerRestart ==
    \E t \in pending :
        /\ t.kind = "restart"
        /\ IF isRunning
           THEN gameLoop(<<>>, pending \ {t})
           ELSE /\ chess' = <<>>
                /\ pending' = pending \ {t}
                /\ UNCHANGED <<whiteAI, blackAI, moveTimesMs, blunderDetector,
                               lastMoveEval, stateFile, gameRecords, learningSnapshots,
                               timer, opponentBot>>
        /\ lastOp' = "timer_restart"
        /\ quickTrainEvents' = NoQuickTrainEvent
        /\ UNCHANGED <<isRunning, apiCalls, EnvVars>>

Next ==
    \/ TrainingStart
    \/ TrainingPause
    \/ TrainingStop
    \/ QuickTrain
    \/ TimerMove
    \/ TimerRestart

Spec == Init /\ [][Next]_vars

\* the orchestrator with the event loop firing the timer set after a
\* finished game, unless it is cleared first
SpecLoop == Init /\ [][Next]_vars /\ WF_vars(TimerRestart)

-----------------------------------------------------------------------------
(* SpecBot: the game loop and the commands start, pause and stop when white *)
(* can be set to play against a saved bot (socket handler                   *)
(* 'play_against_bot')                                                      *)

\* the ids a play_against_bot command carries: none, one that is not in the
\* saved-bots file, and the id of the bot in it
BotIds == {"", "bot_0", "bot_1"}

\* getBot(id): <<the snapshot saved under id>>, or <<>> for undefined; the
\* file holds the snapshot of an agent that has won a game
getBot(id) ==
    IF id = "bot_1" THEN <<exportState(oneGame(newNeuralNetwork, "win"))>>
    ELSE <<>>

\* socket handler 'play_against_bot'
PlayAgainstBot ==
    /\ \E botId \in BotIds :
          opponentBot' = IF botId = "" THEN <<>>
                         ELSE IF getBot(botId) # <<>>
                         THEN <<importState(newNeuralNetwork, getBot(botId)[1])>>
                         ELSE opponentBot
    /\ lastOp' = "play_against_bot"
    /\ quickTrainEvents' = NoQuickTrainEvent
    /\ UNCHANGED <<whiteAI, blackAI, chess, isRunning, timer, pending, moveTimesMs,
                   blunderDetector, lastMoveEval, gameRecords, stateFile,
                   learningSnapshots, apiCalls, EnvVars>>

\* (quick training plays whiteAI against blackAI whatever opponentBot is)
BotNext ==
    \/ PlayAgainstBot
    \/ TrainingStart
    \/ TrainingPause
    \/ TrainingStop
    \/ TimerMove
    \/ TimerRestart

SpecBot == Init /\ [][BotNext]_vars

-----------------------------------------------------------------------------
(* SpecDisk: the orchestrator when the file operations of persistence.ts    *)
(* can fail at the end of a game                                            *)

\* the callback of the move timer on a finished board, with at least one file
\* operation failing
TimerMoveDiskFails ==
    \E t \in pending, ok \in DiskOutcomes \ {DiskOk} :
        /\ t.kind = "move"
        /\ isRunning
        /\ isGameOver(chess)
        /\ whiteAI.gamesPlayed < MaxGames
        /\ gameOver(chess, pending \ {t}, ok)
        /\ lastOp' = "game_over_disk_fails"
        /\ quickTrainEvents' = NoQuickTrainEvent
        /\ UNCHANGED <<isRunning, apiCalls, EnvVars>>

DiskNext == Next \/ TimerMoveDiskFails

SpecDisk == Init /\ [][DiskNext]_vars

-----------------------------------------------------------------------------
(* SpecRestore: the two agents under recorded decisions and game ends, and  *)
(* a restart of the process that loads what exportState gave                *)

RestoreUnchanged == UNCHANGED <<ManagerVars, fenPair, moveIntervalMs, searchRun>>

\* a decision of white that is not a book move
RestoreDecide ==
    \E posHash \in LearnPositions :
      \E move \in StoreMoves(posHash) :
        /\ Len(whiteAI.gameHistory) < MaxTrace
        /\ whiteAI' = recordMove(whiteAI, posHash, move, LearnReward(move))
        /\ lastOp' = "decideMove"
        /\ UNCHANGED <<blackAI, apiCalls>>
        /\ RestoreUnchanged

\* the end of a game: updateStats and learn on both agents
RestoreGameEnd ==
    \E winner \in {"white", "black", "draw"}, jitter \in WinJitter :
        /\ apiCalls < MaxGames
        /\ whiteAI' = applyOutcome(whiteAI, blackAI, winner, jitter).white
        /\ blackAI' = applyOutcome(whiteAI, blackAI, winner, jitter).black
        /\ apiCalls' = apiCalls + 1
        /\ lastOp' = "game_end"
        /\ RestoreUnchanged

\* a new process: new NeuralNetwork(...), importState(savedState...), on the
\* state exported from the agents as they are
RestoreImport ==
    /\ whiteAI' = importState(newNeuralNetwork, exportState(whiteAI))
    /\ blackAI' = importState(newNeuralNetwork, exportState(blackAI))
    /\ lastOp' = "importState"
    /\ UNCHANGED apiCalls
    /\ RestoreUnchanged

RestoreNext == RestoreDecide \/ RestoreGameEnd \/ RestoreImport

SpecRestore == StatsInit /\ [][RestoreNext]_vars

-----------------------------------------------------------------------------
(* SpecSpeed: the training loop under start, pause, stop and the timers,    *)
(* with set_speed commands                                                  *)

\* the integers a set_speed command carries
SpeedInputs == {0 - 1, 0, 49, 50, 1200, 2000, 2001}

\* socket handler 'set_speed'
SetSpeed ==
    /\ \E speedMs \in SpeedInputs : moveIntervalMs' = setSpeed(speedMs)
    /\ lastOp' = "set_speed"
    /\ quickTrainEvents' = NoQuickTrainEvent
    /\ UNCHANGED <<whiteAI, blackAI, chess, isRunning, timer, pending, moveTimesMs,
                   blunderDetector, lastMoveEval, gameRecords, stateFile,
                   learningSnapshots, apiCalls, BenchVars, fenPair, searchRun,
                   opponentBot>>

\* the first game of the loop
SpeedTimerMove ==
    /\ whiteAI.gamesPlayed = 0
    /\ TimerMove

SpeedNext ==
    \/ SetSpeed
    \/ TrainingStart
    \/ TrainingPause
    \/ TrainingStop
    \/ SpeedTimerMove
    \/ TimerRestart

SpecSpeed == Init /\ [][SpeedNext]_vars

-----------------------------------------------------------------------------
(* SpecFault: the orchestrator when chess.move can throw on the move the    *)
(* decision policy returned (the catch branch of gameLoop) and when the     *)
(* decision policy can return null on a board that is not finished          *)

\* the callback of the move timer, with chess.move(move) throwing
TimerMoveThrows ==
    \E t \in pending :
        /\ t.kind = "move"
        /\ isRunning
        /\ ~isGameOver(chess)
        /\ gameLoopCycle(chess, pending \ {t}, FALSE)
        /\ lastOp' = "timer_move_throws"
        /\ quickTrainEvents' = NoQuickTrainEvent
        /\ UNCHANGED <<isRunning, apiCalls, EnvVars>>

\* the callback of the move timer, with decideMoveAuto returning null
TimerMoveNull ==
    \E t \in pending :
        /\ t.kind = "move"
        /\ isRunning
        /\ ~isGameOver(chess)
        /\ gameLoopStep(chess, pending \ {t},
                        [move |-> NoMove, ai |-> getCurrentAI(chess), branch |-> "no_move"],
                        TRUE)
        /\ lastOp' = "timer_move_null"
        /\ quickTrainEvents' = NoQuickTrainEvent
        /\ UNCHANGED <<isRunning, apiCalls, EnvVars>>

FaultNext == Next \/ TimerMoveThrows \/ TimerMoveNull

SpecFault == Init /\ [][FaultNext]_vars

-----------------------------------------------------------------------------
(* StockfishEngine.  A request is the promise getBestMove returns; its id   *)
(* is its index in requests.  stockfish.timeouts holds the requests whose   *)
(* setTimeout has not fired, stockfish.inflight the "go" commands the       *)
(* engine process has not answered with a bestmove line yet.                *)

TrainingVars == <<whiteAI, blackAI, chess, isRunning, timer, pending, moveTimesMs,
                  blunderDetector, lastMoveEval, gameRecords, stateFile,
                  learningSnapshots, quickTrainEvents, opponentBot>>

\* resolve(v) on the promise id: a promise settles once
resolvePromise(reqs, id, v) ==
    IF reqs[id] = "waiting" THEN [reqs EXCEPT ![id] = v] ELSE reqs

\* getBestMove(fen, thinkTimeMs): the engine and the promises after the call
getBestMove(sf, reqs) ==
    IF sf.state # "ready"
    THEN [sf |-> sf, requests |-> Append(reqs, "none")]
    ELSE [sf |-> [sf EXCEPT !.pendingResolve = Len(reqs) + 1,
                            !.timeouts = @ \cup {Len(reqs) + 1},
                            !.inflight = @ \cup {Len(reqs) + 1}],
          requests |-> Append(reqs, "waiting")]

\* processOutput on the bestmove line that answers the "go" of request id
processOutput(sf, reqs, id, move) ==
    IF sf.pendingResolve # 0
    THEN [sf |-> [sf EXCEPT !.pendingResolve = 0, !.inflight = @ \ {id}],
          requests |-> resolvePromise(reqs, sf.pendingResolve, move)]
    ELSE [sf |-> [sf EXCEPT !.inflight = @ \ {id}], requests |-> reqs]

\* the setTimeout callback of request id (thinkTimeMs + 2000)
onTimeout(sf, reqs, id) ==
    IF sf.pendingResolve # 0
    THEN [sf |-> [sf EXCEPT !.pendingResolve = 0, !.timeouts = @ \ {id}],
          requests |-> resolvePromise(reqs, id, "none")]
    ELSE [sf |-> [sf EXCEPT !.timeouts = @ \ {id}], requests |-> reqs]

\* timers set with the same delay fire in the order they were set, and the
\* engine answers its commands in order
oldest(S) == CHOOSE i \in S : \A j \in S : i <= j

EngineMoves == {QuietMove, MateMove}

-----------------------------------------------------------------------------
(* SpecEngine: one engine and a caller that awaits each request before it   *)
(* makes the next, as runBenchmarkGame does                                 *)

EngineUnchanged == UNCHANGED <<TrainingVars, apiCalls, isBenchmarking, benchmark,
                               benchmarkHistory, benchEvents, fenPair, moveIntervalMs, searchRun>>

\* new StockfishEngine(); init() resolves true or false
EngineInit ==
    /\ stockfish.state = "null"
    /\ \E ok \in BOOLEAN :
          stockfish' = [stockfish EXCEPT !.state = IF ok THEN "ready" ELSE "failed"]
    /\ lastOp' = "engine_init"
    /\ UNCHANGED requests
    /\ EngineUnchanged

\* the caller's next getBestMove
EngineRequest ==
    /\ stockfish.state # "null"
    /\ Len(requests) < MaxRequests
    /\ \A i \in 1..Len(requests) : requests[i] # "waiting"
    /\ stockfish' = getBestMove(stockfish, requests).sf
    /\ requests' = getBestMove(stockfish, requests).requests
    /\ lastOp' = "getBestMove"
    /\ EngineUnchanged

\* the engine process writes a bestmove line
EngineOutput ==
    /\ stockfish.inflight # {}
    /\ \E move \in EngineMoves :
          LET after == processOutput(stockfish, requests, oldest(stockfish.inflight), move)
          IN  /\ stockfish' = after.sf
              /\ requests' = after.requests
    /\ lastOp' = "engine_output"
    /\ EngineUnchanged

\* the timeout timer of a request fires
EngineTimeout ==
    /\ stockfish.timeouts # {}
    /\ LET after == onTimeout(stockfish, requests, oldest(stockfish.timeouts))
       IN  /\ stockfish' = after.sf
           /\ requests' = after.requests
    /\ lastOp' = "engine_timeout"
    /\ EngineUnchanged

EngineNext == EngineInit \/ EngineRequest \/ EngineOutput \/ EngineTimeout

\* the engine process answers every command and every timer fires
SpecEngine ==
    /\ Init
    /\ [][EngineNext]_vars
    /\ WF_vars(EngineOutput)
    /\ WF_vars(EngineTimeout)

-----------------------------------------------------------------------------
(* The benchmark module: runQuickBenchmark and runBenchmarkGame.  A run is  *)
(* the record [game, chess, ai, sf, requests, history, pc, request]: the    *)
(* index of the game being played, its board, the benchmarked agent, the    *)
(* engine, the promises, benchmarkHistory, and where the run stands.        *)

maxMoves == 200
\* levels.length in runQuickBenchmark
BENCHMARK_GAMES == 3

\* const playWhite = i % 2 === 0
aiPlaysWhite(game) == game % 2 = 0
isAITurn(game, c) == (turn(c) = "w") = aiPlaysWhite(game)

\* the BenchmarkResult of a game that stopped on the board c
benchmarkResult(history, game, c) ==
    [ id      |-> Len(history) + 1,
      aiColor |-> IF aiPlaysWhite(game) THEN "white" ELSE "black",
      result  |-> IF isCheckmate(c)
                  THEN (IF (turn(c) = "w") = aiPlaysWhite(game)
                        THEN "stockfish_win" ELSE "ai_win")
                  ELSE "draw",
      reason  |-> IF isCheckmate(c) THEN "Checkmate"
                  ELSE IF isDraw(c) THEN "Draw"
                  ELSE IF Len(c) >= maxMoves THEN "Move limit reached"
                  ELSE "Unknown",
      moves   |-> Len(c) ]

\* the end of runBenchmarkGame: push the result; the loop of
\* runQuickBenchmark goes on to the next game
endBenchmarkGame(run) ==
    [run EXCEPT !.history = Append(@, benchmarkResult(run.history, run.game, run.chess)),
                !.game = @ + 1,
                !.chess = <<>>]

\* runQuickBenchmark from the point run stands at, up to its next await on
\* the engine (pc = "await") or its return (pc = "done")
RECURSIVE runQuickBenchmark(_)
runQuickBenchmark(run) ==
    IF run.game >= BENCHMARK_GAMES THEN {[run EXCEPT !.pc = "done"]}
    ELSE IF isGameOver(run.chess) \/ Len(run.chess) >= maxMoves
    THEN runQuickBenchmark(endBenchmarkGame(run))
    ELSE IF isAITurn(run.game, run.chess)
    THEN UNION {
           IF d.move = NoMove
           THEN runQuickBenchmark(endBenchmarkGame([run EXCEPT !.ai = d.ai]))
           ELSE runQuickBenchmark([run EXCEPT !.ai = d.ai, !.chess = Append(@, d.move)]) :
           d \in { x \in decideMoveAuto(run.ai, run.chess) :
                      Len(x.ai.gameHistory) <= MaxTrace } }
    ELSE LET asked == getBestMove(run.sf, run.requests)
         IN  IF asked.requests[Len(asked.requests)] = "waiting"
             THEN IF Len(run.requests) < MaxRequests
                  THEN {[run EXCEPT !.sf = asked.sf, !.requests = asked.requests,
                                    !.pc = "await", !.request = Len(asked.requests)]}
                  ELSE {}
             ELSE runQuickBenchmark(
                      endBenchmarkGame([run EXCEPT !.requests = asked.requests]))

\* the continuation of runBenchmarkGame when the awaited promise has settled
resumeBenchmark(run) ==
    IF run.requests[run.request] = "none"
    THEN runQuickBenchmark(endBenchmarkGame(run))
    ELSE runQuickBenchmark([run EXCEPT !.chess = Append(@, run.requests[run.request])])

-----------------------------------------------------------------------------
(* SpecBench: the run_benchmark handler with the engine's output and        *)
(* timers, while training commands and the move timer go on                 *)

BUSY == "benchmark_error: Benchmark already running"
INIT_FAILED == "benchmark_error: Failed to initialize Stockfish"
COMPLETE == "benchmark_complete"

BenchFrame ==
    /\ quickTrainEvents' = NoQuickTrainEvent
    /\ UNCHANGED <<blackAI, chess, isRunning, timer, pending, moveTimesMs,
                   blunderDetector, lastMoveEval, gameRecords, stateFile,
                   learningSnapshots, apiCalls, fenPair, moveIntervalMs, searchRun,
                   opponentBot>>

\* the run the handler in progress stands in, with the engine sf and the
\* promises reqs
currentRun(sf, reqs) ==
    [ game |-> benchmark.game, chess |-> benchmark.chess, ai |-> whiteAI, sf |-> sf,
      requests |-> reqs, history |-> benchmarkHistory, pc |-> "run",
      request |-> benchmark.request ]

\* the handler up to its next await, or through benchmark_complete and finally
commitRun(run) ==
    /\ whiteAI' = run.ai
    /\ stockfish' = run.sf
    /\ requests' = run.requests
    /\ benchmarkHistory' = run.history
    /\ IF run.pc = "done"
       THEN /\ isBenchmarking' = FALSE
            /\ benchmark' = NoBenchmark
            /\ benchEvents' = Append(benchEvents, COMPLETE)
       ELSE /\ isBenchmarking' = TRUE
            /\ benchmark' = [pc |-> "await", game |-> run.game, chess |-> run.chess,
                             request |-> run.request]
            /\ UNCHANGED benchEvents

\* mutant: the handler does not test isBenchmarking
RunBenchmark_noGuard ==
    /\ Len(benchEvents) + (IF isBenchmarking THEN 1 ELSE 0) < MaxBenchmarks
    /\ IF stockfish.state = "null"
       THEN /\ isBenchmarking' = TRUE
            /\ stockfish' = [stockfish EXCEPT !.state = "starting"]
            /\ benchmark' = [NoBenchmark EXCEPT !.pc = "init"]
            /\ UNCHANGED <<whiteAI, requests, benchmarkHistory, benchEvents>>
       ELSE \E run \in runQuickBenchmark(
                          [currentRun(stockfish, requests) EXCEPT !.game = 0,
                                                                  !.chess = <<>>]) :
                commitRun(run)
    /\ lastOp' = "run_benchmark"
    /\ BenchFrame

\* socket handler 'run_benchmark', up to its first await
RunBenchmark ==
    /\ Len(benchEvents) + (IF isBenchmarking THEN 1 ELSE 0) < MaxBenchmarks
    /\ IF isBenchmarking
       THEN /\ benchEvents' = Append(benchEvents, BUSY)
            /\ UNCHANGED <<whiteAI, isBenchmarking, stockfish, requests, benchmark,
                           benchmarkHistory>>
       ELSE IF stockfish.state = "null"
       THEN /\ isBenchmarking' = TRUE
            /\ stockfish' = [stockfish EXCEPT !.state = "starting"]
            /\ benchmark' = [NoBenchmark EXCEPT !.pc = "init"]
            /\ UNCHANGED <<whiteAI, requests, benchmarkHistory, benchEvents>>
       ELSE \E run \in runQuickBenchmark(currentRun(stockfish, requests)) :
                commitRun(run)
    /\ lastOp' = "run_benchmark"
    /\ BenchFrame

\* stockfish.init() settles and the handler goes on
BenchInitDone ==
    /\ benchmark.pc = "init"
    /\ \E initialized \in BOOLEAN :
          IF initialized
          THEN \E run \in runQuickBenchmark(
                             currentRun([stockfish EXCEPT !.state = "ready"], requests)) :
                   commitRun(run)
          ELSE /\ stockfish' = [stockfish EXCEPT !.state = "failed"]
               /\ isBenchmarking' = FALSE
               /\ benchmark' = NoBenchmark
               /\ benchEvents' = Append(benchEvents, INIT_FAILED)
               /\ UNCHANGED <<whiteAI, requests, benchmarkHistory>>
    /\ lastOp' = "benchmark_init"
    /\ BenchFrame

\* the engine and the promises changed to after; the handler goes on when the
\* promise it awaits has settled
benchmarkContinues(after) ==
    IF benchmark.pc = "await" /\ after.requests[benchmark.request] # "waiting"
    THEN \E run \in resumeBenchmark(currentRun(after.sf, after.requests)) :
             commitRun(run)
    ELSE /\ stockfish' = after.sf
         /\ requests' = after.requests
         /\ UNCHANGED <<whiteAI, isBenchmarking, benchmark, benchmarkHistory,
                        benchEvents>>

\* the engine process writes a bestmove line
BenchEngineOutput ==
    /\ stockfish.inflight # {}
    /\ \E move \in EngineMoves :
          benchmarkContinues(processOutput(stockfish, requests,
                                           oldest(stockfish.inflight), move))
    /\ lastOp' = "benchmark_engine_output"
    /\ BenchFrame

\* the timeout timer of a request fires
BenchEngineTimeout ==
    /\ stockfish.timeouts # {}
    /\ benchmarkContinues(onTimeout(stockfish, requests, oldest(stockfish.timeouts)))
    /\ lastOp' = "benchmark_engine_timeout"
    /\ BenchFrame

\* the training commands and the move timer, while a benchmark is in progress
\* and within the first training game
BenchTrainingStart ==
    /\ isBenchmarking
    /\ whiteAI.gamesPlayed = 0
    /\ TrainingStart

BenchQuickTrain ==
    /\ isBenchmarking
    /\ whiteAI.gamesPlayed = 0
    /\ QuickTrain
    /\ quickTrainEvents'.games = 1

BenchTimerMove ==
    /\ isBenchmarking
    /\ ~isGameOver(chess)
    /\ TimerMove

BenchNext ==
    \/ RunBenchmark
    \/ BenchInitDone
    \/ BenchEngineOutput
    \/ BenchEngineTimeout
    \/ BenchTrainingStart
    \/ BenchQuickTrain
    \/ BenchTimerMove

SpecBench == Init /\ [][BenchNext]_vars

-----------------------------------------------------------------------------
(* SpecKey: the keys of two game states, given as the FENs chess.fen()      *)
(* returns for them                                                         *)

FenStates ==
    [ placement : {<<>>, <<QuietMove>>},
      turn      : {"w", "b"},
      castling  : {"KQkq", "-"},
      ep        : {"-", "e3"},
      halfmove  : 0..MaxCounter,
      fullmove  : 1..(MaxCounter + 1) ]

KeyInit ==
    /\ whiteAI = newNeuralNetwork
    /\ blackAI = newNeuralNetwork
    /\ ManagerInit
    /\ \E f \in FenStates, g \in FenStates :
          fenPair = [NoFenPair EXCEPT !.a = f, !.b = g]
    /\ moveIntervalMs = DEFAULT_INTERVAL
    /\ searchRun = NoSearch

\* hashPosition and simplifyFen on both states
KeyDerive ==
    /\ ~fenPair.derived
    /\ fenPair' = [fenPair EXCEPT !.derived = TRUE,
                                  !.keyA = hashFen(fenPair.a),
                                  !.keyB = hashFen(fenPair.b),
                                  !.bookA = simplifyFen(fenPair.a),
                                  !.bookB = simplifyFen(fenPair.b)]
    /\ lastOp' = "hashPosition"
    /\ UNCHANGED <<TrainingVars, apiCalls, BenchVars, moveIntervalMs, searchRun>>

KeyNext == KeyDerive

SpecKey == KeyInit /\ [][KeyNext]_vars

-----------------------------------------------------------------------------
(* SpecDecide: the two agents under any sequence of decisions on one board, *)
(* mode changes and game ends, from new agents or experienced ones          *)

DecideInit ==
    /\ \E mode \in AIModes :
          \/ /\ whiteAI = setMode(newNeuralNetwork, mode)
             /\ blackAI = setMode(newNeuralNetwork, mode)
          \/ /\ whiteAI = setMode(afterGames(newNeuralNetwork, PriorGames, "loss"), mode)
             /\ blackAI = setMode(afterGames(newNeuralNetwork, PriorGames, "win"), mode)
    /\ ManagerInit
    /\ fenPair = NoFenPair
    /\ moveIntervalMs = DEFAULT_INTERVAL
    /\ searchRun = NoSearch

DecideUnchanged ==
    UNCHANGED <<isRunning, timer, pending, moveTimesMs, blunderDetector, lastMoveEval,
                gameRecords, stateFile, learningSnapshots, quickTrainEvents, EnvVars,
                opponentBot>>

\* currentAI.decideMoveAuto(this.chess); if (move) this.chess.move(move)
DecideMove ==
    /\ \E d \in decideMoveAuto(getCurrentAI(chess), chess) :
          /\ whiteAI' = IF turn(chess) = "w" THEN d.ai ELSE whiteAI
          /\ blackAI' = IF turn(chess) = "w" THEN blackAI ELSE d.ai
          /\ chess' = IF d.move = NoMove THEN chess ELSE Append(chess, d.move)
          /\ lastOp' = d.branch
    /\ UNCHANGED apiCalls
    /\ DecideUnchanged

\* socket handler 'set_ai_mode'
DecideSetMode ==
    /\ \E mode \in AIModes :
          /\ whiteAI' = setMode(whiteAI, mode)
          /\ blackAI' = setMode(blackAI, mode)
    /\ lastOp' = "set_ai_mode"
    /\ UNCHANGED <<chess, apiCalls>>
    /\ DecideUnchanged

\* the game is over: updateStats and learn on both agents, and a new board
DecideGameEnd ==
    /\ isGameOver(chess)
    /\ apiCalls < MaxGames
    /\ \E jitter \in WinJitter :
          LET after == applyOutcome(whiteAI, blackAI, winnerOf(chess), jitter)
          IN  /\ whiteAI' = after.white
              /\ blackAI' = after.black
    /\ chess' = <<>>
    /\ apiCalls' = apiCalls + 1
    /\ lastOp' = "game_end"
    /\ DecideUnchanged

DecideNext == DecideMove \/ DecideSetMode \/ DecideGameEnd

SpecDecide == DecideInit /\ [][DecideNext]_vars

-----------------------------------------------------------------------------
(* SpecSearch: one call of mcts on a position given by its legal moves *)

SearchMoves == {QuietMove, MateMove, "d4", "Nf3"}
\* setMCTSSimulations keeps the count within [10, 200]; 30 is the default
SearchSimulations == {10, DEFAULT_MCTS_SIMULATIONS}

SearchInit ==
    /\ whiteAI = newNeuralNetwork
    /\ blackAI = newNeuralNetwork
    /\ ManagerInit
    /\ fenPair = NoFenPair
    /\ moveIntervalMs = DEFAULT_INTERVAL
    /\ \E moves \in SUBSET SearchMoves, n \in SearchSimulations :
          searchRun = [NoSearch EXCEPT !.moves = moves, !.numSimulations = n]

SearchCall ==
    /\ ~searchRun.done
    /\ \E r \in mcts(searchRun.moves, searchRun.numSimulations) :
          searchRun' = [searchRun EXCEPT !.done = TRUE,
                                        !.move = r.move,
                                        !.root = r.root,
                                        !.expanded = r.expanded,
                                        !.simulations = r.simulations]
    /\ lastOp' = "mcts"
    /\ UNCHANGED <<TrainingVars, apiCalls, BenchVars, fenPair, moveIntervalMs>>

SearchNext == SearchCall

SpecSearch == SearchInit /\ [][SearchNext]_vars

-----------------------------------------------------------------------------
(* Properties of the Q-table (SpecStore) *)

keyVisits(q, posHash) == totalVisits(qMoves(q, posHash))

\* C1: starting from an empty Q-table, after any sequence of setQValue calls
\* the number of distinct position keys in the table is at most MAX_POSITIONS.
C1_StoreBounded ==
    /\ Cardinality(qKeys(whiteAI.qTable)) <= MAX_POSITIONS
    /\ Len(whiteAI.qTable) = Cardinality(qKeys(whiteAI.qTable))

\* the table is full again after an eviction: the first key is gone and the
\* key inserted at capacity is held
C1_Witness ==
    /\ Cardinality(qKeys(whiteAI.qTable)) = MAX_POSITIONS
    /\ (MAX_POSITIONS + 1) \in qKeys(whiteAI.qTable)
    /\ 1 \notin qKeys(whiteAI.qTable)

\* C2: whenever setQValue inserts a new key into a table that holds
\* n >= MAX_POSITIONS keys, the eviction removes exactly floor(n / 5) keys, and
\* the visits summed over the moves of any removed key are at most those of
\* any key that is kept.
C2_EvictsLowestFifth ==
    [][ LET q       == whiteAI.qTable
            q2      == whiteAI'.qTable
            removed == qKeys(q) \ qKeys(q2)
            kept    == qKeys(q) \cap qKeys(q2)
        IN  (Len(q) >= MAX_POSITIONS /\ qKeys(q2) \ qKeys(q) # {}) =>
                /\ Cardinality(removed) = Len(q) \div 5
                /\ \A r \in removed : \A k \in kept :
                       keyVisits(q, r) <= keyVisits(q, k)
      ]_vars

\* an eviction has passed over the oldest key, which had more visits, and
\* removed the second one
C2_Witness ==
    /\ {1, MAX_POSITIONS + 1} \subseteq qKeys(whiteAI.qTable)
    /\ 2 \notin qKeys(whiteAI.qTable)
    /\ whiteAI.qTable[1].pos = 1

-----------------------------------------------------------------------------
(* Properties of the learning step (SpecLearn) *)

\* C3: after learn returns the game history is empty, and a learn call that
\* directly follows another learn call leaves the Q-table as it was (keys,
\* moves, values and visit counts).
C3_LearnClearsTrace ==
    [][ /\ lastOp' \in {"learn", "learn_again"} => whiteAI'.gameHistory = <<>>
        /\ lastOp' = "learn_again" => whiteAI'.qTable = whiteAI.qTable
      ]_vars

\* two learn calls in a row on an agent that has learned something
C3_Witness ==
    /\ lastOp = "learn_again"
    /\ whiteAI.qTable # <<>>
    /\ whiteAI.gameHistory = <<>>

\* C4: from one learn call to the next the exploration rate never increases
\* and is never below the floor 0.05; each call multiplies it by 0.995 and
\* floors it; a new agent has 0.30.
C4_ExplorationDecays ==
    [][ /\ whiteAI'.explorationRate <= whiteAI.explorationRate
        /\ whiteAI.explorationRate >= (5 * RateUnit) \div 100
        /\ whiteAI'.explorationRate >= (5 * RateUnit) \div 100
        /\ whiteAI.explorationRate <= (3 * RateUnit) \div 10
        /\ lastOp' \in {"learn", "learn_again"} =>
              whiteAI'.explorationRate =
                  Max((5 * RateUnit) \div 100, (whiteAI.explorationRate * 995) \div 1000)
        /\ lastOp' = "decideMove" => whiteAI'.explorationRate = whiteAI.explorationRate
      ]_vars

\* a learn call has brought the rate down onto its floor
C4_Witness ==
    /\ lastOp \in {"learn", "learn_again"}
    /\ whiteAI.explorationRate = MIN_EXPLORATION
    /\ whiteAI.gamesPlayed = PriorGames

\* C21: a learn call made while the game history is empty leaves the whole
\* agent as it was: Q-table, game history, exploration rate, rating, counters
\* and streaks.
C21_EmptyLearnIsNoOp ==
    [][ (lastOp' \in {"learn", "learn_again"} /\ whiteAI.gameHistory = <<>>) =>
            whiteAI' = whiteAI
      ]_vars

-----------------------------------------------------------------------------
(* Properties of the rating and streak bookkeeping (SpecStats) *)

\* C5: after any sequence of win, loss and draw updates of an agent created
\* with rating 800, its rating is at least 100.
C5_RatingFloor ==
    /\ whiteAI.elo >= 100 * EloUnit
    /\ blackAI.elo >= 100 * EloUnit

\* an agent at the floor has lost again and stays on the floor
C5_Witness ==
    /\ whiteAI.elo = ELO_FLOOR * EloUnit
    /\ whiteAI.losses = PriorGames + 2
    /\ whiteAI.wins = 1

C6_Win(a, b) ==
    /\ b.elo - a.elo >= 15 * EloUnit
    /\ b.elo - a.elo < 20 * EloUnit
    /\ b.currentStreak = IF a.currentStreak > 0 THEN a.currentStreak + 1 ELSE 1
    /\ b.bestWinStreak = Max(a.bestWinStreak, b.currentStreak)

C6_Loss(a, b) ==
    /\ b.elo = Max(100 * EloUnit, a.elo - 10 * EloUnit)
    /\ b.currentStreak = IF a.currentStreak < 0 THEN a.currentStreak - 1 ELSE 0 - 1
    /\ b.bestLossStreak = Max(a.bestLossStreak, Abs(b.currentStreak))

C6_Draw(a, b) ==
    /\ b.elo = a.elo + 2 * EloUnit
    /\ b.currentStreak = 0

\* C6: one outcome update.  Win: the rating rises by an amount in [15, 20),
\* the streak becomes previous + 1 if it was positive and 1 otherwise,
\* bestWinStreak becomes the maximum of itself and the streak.  Loss: the
\* rating becomes max(100, rating - 10), the streak becomes previous - 1 if it
\* was negative and -1 otherwise, bestLossStreak becomes the maximum of itself
\* and |streak|.  Draw: the rating rises by 2, the streak becomes 0.  From two
\* new agents, after White beats Black: White has a rating in [815, 820) and
\* streak 1, Black has rating 790 and streak -1.
C6_OutcomeUpdate ==
    [][ /\ lastOp' = "white" => C6_Win(whiteAI, whiteAI') /\ C6_Loss(blackAI, blackAI')
        /\ lastOp' = "black" => C6_Win(blackAI, blackAI') /\ C6_Loss(whiteAI, whiteAI')
        /\ lastOp' = "draw" => C6_Draw(whiteAI, whiteAI') /\ C6_Draw(blackAI, blackAI')
        /\ (lastOp' = "white" /\ whiteAI = newNeuralNetwork /\ blackAI = newNeuralNetwork) =>
              /\ whiteAI'.elo >= 815 * EloUnit
              /\ whiteAI'.elo < 820 * EloUnit
              /\ whiteAI'.currentStreak = 1
              /\ blackAI'.elo = 790 * EloUnit
              /\ blackAI'.currentStreak = 0 - 1
      ]_vars

\* White has won twice in a row after a loss, from two new agents
C6_Witness ==
    /\ whiteAI.gamesPlayed = 3
    /\ whiteAI.currentStreak = 2
    /\ whiteAI.bestLossStreak = 1
    /\ blackAI.currentStreak = 0 - 2
    /\ blackAI.bestWinStreak = 1

-----------------------------------------------------------------------------
(* Properties of the orchestrator (Spec) *)

RECURSIVE decayedTimes(_, _)
decayedTimes(e, n) ==
    IF n = 0 THEN e
    ELSE decayedTimes(Max(MIN_EXPLORATION, decayExploration(e)), n - 1)

\* C7: a quick_train command for n games received while the loop is not running
\* plays exactly n games (n game records are added), reports white-win,
\* black-win and draw counts that sum to n, adds n to each agent's gamesPlayed,
\* decays each agent's exploration rate exactly n times, and leaves the
\* orchestrator not running, with no timer pending and the board at the
\* initial position.
C7_QuickTrainPlaysN ==
    [][ (lastOp' = "quick_train" /\ ~isRunning) =>
            LET n == quickTrainEvents'.games
            IN  /\ n >= 1
                /\ quickTrainEvents'.gamesPlayed = n
                /\ Len(gameRecords') = Len(gameRecords) + n
                /\ quickTrainEvents'.whiteWins + quickTrainEvents'.blackWins
                      + quickTrainEvents'.draws = n
                /\ whiteAI'.gamesPlayed = whiteAI.gamesPlayed + n
                /\ blackAI'.gamesPlayed = blackAI.gamesPlayed + n
                /\ whiteAI'.wins + whiteAI'.losses + whiteAI'.draws
                      = whiteAI.wins + whiteAI.losses + whiteAI.draws + n
                /\ whiteAI'.explorationRate = decayedTimes(whiteAI.explorationRate, n)
                /\ blackAI'.explorationRate = decayedTimes(blackAI.explorationRate, n)
                /\ ~isRunning'
                /\ pending' = {}
                /\ timer' = 0
                /\ chess' = <<>>
      ]_vars

\* a quick training of two games, one won by white and one drawn, has returned
C7_Witness ==
    /\ lastOp = "quick_train"
    /\ quickTrainEvents.games = 2
    /\ quickTrainEvents.whiteWins = 1
    /\ quickTrainEvents.draws = 1
    /\ whiteAI.gamesPlayed = 2
    /\ Len(gameRecords) = 2

\* C8: a training_stop command received while the loop is running cancels the
\* pending timer and resets the board, and a training_start command that
\* follows it runs its first move cycle from the initial position with no
\* move played: after it one move is on the board and one timer is pending.
C8_StopThenStart ==
    [][ /\ (lastOp' = "stop" /\ isRunning) =>
               /\ ~isRunning'
               /\ pending' = {}
               /\ timer' = 0
               /\ chess' = <<>>
               /\ moveTimesMs' = <<>>
        /\ (lastOp = "stop" /\ lastOp' = "start") =>
               /\ chess = <<>>
               /\ moveTimesMs = <<>>
               /\ pending = {}
               /\ isRunning'
               /\ Len(chess') = 1
               /\ Len(moveTimesMs') = 1
               /\ Cardinality(pending') = 1
      ]_vars

\* the loop was started again after a game was abandoned: black still holds
\* the move it recorded in that game, and the board shows white's first move
C8_Witness ==
    /\ lastOp = "start"
    /\ chess = <<QuietMove>>
    /\ isRunning
    /\ blackAI.gamesPlayed = 0
    /\ blackAI.gameHistory # <<>>

\* C9: in every reachable state at most one timer is pending, a pending timer
\* is the one this.timer refers to and the loop is running, and before any
\* command the loop is not running and no timer is pending.
C9_OneCycle ==
    /\ Cardinality(pending) <= 1
    /\ pending # {} => (isRunning /\ \A t \in pending : t.id = timer)
    /\ lastOp = "new" => (~isRunning /\ pending = {} /\ timer = 0)

\* the timer set after a finished game has fired and started the next game,
\* whose first move cycle has set the one pending timer
C9_Witness ==
    /\ lastOp = "timer_restart"
    /\ isRunning
    /\ Cardinality(pending) = 1
    /\ Len(chess) = 1
    /\ whiteAI.gamesPlayed >= 1

\* C10: while the loop is not running no timer is pending, and anything other
\* than a training_start, quick_train or training_stop command leaves the
\* board, the move times and both agents as they are; training_pause itself
\* leaves the board and the move times as they are, and the training_start
\* that follows continues on that board.
C10_NoCycleAfterCancel ==
    [][ /\ ~isRunning' => pending' = {}
        /\ (~isRunning /\ lastOp' \notin {"start", "quick_train", "stop"}) =>
               UNCHANGED <<chess, moveTimesMs, whiteAI, blackAI>>
        /\ lastOp' = "pause" => UNCHANGED <<chess, moveTimesMs>>
        /\ (lastOp = "pause" /\ lastOp' = "start") =>
               /\ Len(chess') >= Len(chess)
               /\ SubSeq(chess', 1, Len(chess)) = chess
      ]_vars

\* the loop is paused in the middle of a game: two moves are on the board
C10_Witness ==
    /\ lastOp = "pause"
    /\ ~isRunning
    /\ Len(chess) = 2
    /\ Len(moveTimesMs) = 2

\* C11: every training_stop command leaves the board at the initial position,
\* both agents' game histories empty, the move times and the blunder
\* tracking cleared, and both agents' Q-tables as they were.
C11_StopClearsTraces ==
    [][ lastOp' = "stop" =>
            /\ chess' = <<>>
            /\ whiteAI'.gameHistory = <<>>
            /\ blackAI'.gameHistory = <<>>
            /\ moveTimesMs' = <<>>
            /\ blunderDetector' = 0
            /\ lastMoveEval' = 0
            /\ whiteAI'.qTable = whiteAI.qTable
            /\ blackAI'.qTable = blackAI.qTable
      ]_vars

\* C12: a move cycle in which applying the decided move throws leaves the
\* board at the initial position, both agents' game histories empty, the
\* move times, the blunder tracking and the last move evaluation cleared, the
\* loop running and the next cycle scheduled.
C12_ApplyFailureClears ==
    [][ lastOp' = "timer_move_throws" =>
            /\ chess' = <<>>
            /\ whiteAI'.gameHistory = <<>>
            /\ blackAI'.gameHistory = <<>>
            /\ moveTimesMs' = <<>>
            /\ blunderDetector' = 0
            /\ lastMoveEval' = 0
            /\ isRunning'
            /\ Cardinality(pending') = 1
      ]_vars

-----------------------------------------------------------------------------
(* Properties of the restart after a finished game (SpecLoop) *)

restartPending == \E t \in pending : t.kind = "restart" /\ t.delay = 3000

\* C30: the timer set after a finished game has a delay of 3000 ms; when it
\* fires while the loop is running the board is reset and a move cycle runs
\* from the initial position, which schedules the next one; a training_pause
\* or training_stop command received while it is pending clears it, so that
\* nothing is pending afterwards; and while the loop stays running the timer
\* does fire.
C30_RestartAfterGame ==
    /\ [][ /\ \A t \in pending' : t.kind = "restart" => t.delay = 3000
           /\ (lastOp' = "timer_restart" /\ isRunning) =>
                  /\ restartPending
                  /\ isGameOver(chess)
                  /\ Len(chess') = 1
                  /\ isRunning'
                  /\ \E t \in pending' : t.kind = "move" /\ t.id = timer'
           /\ (restartPending /\ lastOp' \in {"pause", "stop"}) =>
                  /\ pending' = {}
                  /\ ~isRunning'
                  /\ lastOp' = "pause" => chess' = chess
         ]_vars
    /\ restartPending ~> (lastOp = "timer_restart" \/ ~isRunning)

\* the first game was drawn, the timer has fired, and white has made the
\* first move of the second game
C30_Witness ==
    /\ lastOp = "timer_restart"
    /\ isRunning
    /\ chess = <<QuietMove>>
    /\ whiteAI.gamesPlayed = 1
    /\ whiteAI.draws = 1
    /\ Len(gameRecords) = 1
    /\ \E t \in pending : t.kind = "move" /\ t.delay = DEFAULT_INTERVAL

-----------------------------------------------------------------------------
(* Properties of the orchestrator with failing file operations (SpecDisk) *)

\* C28: when file reads or writes fail at the end of a game, both agents are
\* what updateStats and learn make of them for the game's outcome, as when
\* every write succeeds; the loop stays running and the timer that starts the
\* next game is scheduled.
C28_DiskFailureIsSoft ==
    [][ lastOp' = "game_over_disk_fails" =>
            /\ \E jitter \in WinJitter :
                   LET after == applyOutcome(whiteAI, blackAI, winnerOf(chess), jitter)
                   IN  whiteAI' = after.white /\ blackAI' = after.black
            /\ isRunning'
            /\ \E t \in pending' : t.kind = "restart" /\ t.id = timer'
            /\ moveTimesMs' = <<>>
      ]_vars

\* the first game ended in a draw and neither the game history nor the
\* learning snapshots were written
C28_Witness ==
    /\ lastOp = "game_over_disk_fails"
    /\ gameRecords = <<>>
    /\ learningSnapshots = <<>>
    /\ whiteAI.gamesPlayed = 1
    /\ whiteAI.draws = 1
    /\ \E t \in pending : t.kind = "restart"

-----------------------------------------------------------------------------
(* Properties of export and import (SpecRestore) *)

roundTrip(a, b) ==
    /\ b.elo = a.elo
    /\ b.gamesPlayed = a.gamesPlayed
    /\ b.wins = a.wins
    /\ b.losses = a.losses
    /\ b.draws = a.draws
    /\ b.explorationRate = a.explorationRate
    /\ b.currentStreak = a.currentStreak
    /\ b.bestWinStreak = a.bestWinStreak
    /\ b.bestLossStreak = a.bestLossStreak
    /\ b.qTable = a.qTable

\* C29: importState on the result of exportState gives an agent with the
\* same rating, gamesPlayed, wins, losses, draws, exploration rate,
\* currentStreak, bestWinStreak, bestLossStreak and Q-table.
C29_ExportImportRoundTrip ==
    [][ lastOp' = "importState" =>
            /\ roundTrip(whiteAI, whiteAI')
            /\ roundTrip(blackAI, blackAI')
      ]_vars

-----------------------------------------------------------------------------
(* Properties of the move delay (SpecSpeed) *)

\* C27: the delay between moves is 800 ms before any command and always
\* within [50 ms, 2000 ms], as is the delay of every scheduled move cycle;
\* setSpeed(ms) is ms clamped to that range for every integer ms; a set_speed
\* command sets the delay to such a value and changes nothing else: the
\* scheduled cycle with its delay, the timer handle, the running flag, the
\* board and both agents stay as they were.
C27_DelayClamped ==
    [][ /\ lastOp = "new" => moveIntervalMs = 800
        /\ moveIntervalMs >= 50 /\ moveIntervalMs <= 2000
        /\ moveIntervalMs' >= 50 /\ moveIntervalMs' <= 2000
        /\ \A t \in pending' : t.kind = "move" => (t.delay >= 50 /\ t.delay <= 2000)
        /\ \A ms \in SpeedInputs :
               setSpeed(ms) = IF ms < 50 THEN 50 ELSE IF ms > 2000 THEN 2000 ELSE ms
        /\ lastOp' = "set_speed" =>
               /\ \E ms \in SpeedInputs : moveIntervalMs' = setSpeed(ms)
               /\ UNCHANGED <<pending, timer, isRunning, chess, whiteAI, blackAI,
                              moveTimesMs>>
      ]_vars

\* the delay was raised to its maximum while a cycle scheduled with the
\* initial delay is pending
C27_Witness ==
    /\ lastOp = "set_speed"
    /\ moveIntervalMs = MAX_INTERVAL
    /\ isRunning
    /\ Len(chess) = 1
    /\ \E t \in pending : t.kind = "move" /\ t.delay = DEFAULT_INTERVAL

-----------------------------------------------------------------------------
(* Properties of the engine wrapper (SpecEngine) *)

\* C16: every getBestMove request that is waiting for its answer is
\* eventually settled, with a move or with none.
C16_RequestCompletes ==
    \A i \in 1..MaxRequests :
        (Len(requests) >= i /\ requests[i] = "waiting")
            ~> (Len(requests) >= i /\ requests[i] # "waiting")

-----------------------------------------------------------------------------
(* Properties of the benchmark handler (SpecBench) *)

\* C13: a quick_train request that arrives while a benchmark is in progress
\* is rejected: it plays no game and changes neither agent.
C13_QuickTrainRejectedWhileBenchmarking ==
    [][ (isBenchmarking /\ lastOp' = "quick_train") =>
            /\ quickTrainEvents'.games = 0
            /\ gameRecords' = gameRecords
            /\ whiteAI' = whiteAI
            /\ blackAI' = blackAI
      ]_vars

\* C14: while a benchmark is in progress no move cycle of the training loop
\* is executed and none is scheduled.
C14_NoCycleWhileBenchmarking ==
    [][ (isBenchmarking /\ isBenchmarking') =>
            /\ pending' = {}
            /\ lastOp' \notin {"timer_move", "timer_restart"}
            /\ ~(lastOp' = "start" /\ ~isRunning)
      ]_vars

\* C15: a run_benchmark request that arrives while a benchmark is in progress
\* is answered with benchmark_error 'Benchmark already running' and changes
\* nothing else: the flag stays set, the benchmark in progress, the engine,
\* its promises, the benchmark history and the agent are as they were.
C15_SecondBenchmarkRejected ==
    [][ (isBenchmarking /\ lastOp' = "run_benchmark") =>
            /\ benchEvents' = Append(benchEvents, BUSY)
            /\ isBenchmarking'
            /\ UNCHANGED <<benchmark, stockfish, requests, benchmarkHistory, whiteAI>>
      ]_vars

\* a request was rejected while the first benchmark awaits the engine in its
\* second game
C15_Witness ==
    /\ lastOp = "run_benchmark"
    /\ isBenchmarking
    /\ benchmark.pc = "await"
    /\ benchmark.game = 1
    /\ benchEvents = <<BUSY>>

\* C17: a benchmark request is answered with benchmark_complete only when the
\* engine is initialised and none of the request's games stopped because the
\* engine returned no move; and a failed initialisation is answered with
\* benchmark_error.
C17_EngineFailureReported ==
    [][ /\ (Len(benchEvents') > Len(benchEvents)
             /\ benchEvents'[Len(benchEvents')] = COMPLETE) =>
               /\ stockfish'.state = "ready"
               /\ \A i \in 1..Len(benchmarkHistory') :
                      i > Len(benchmarkHistory') - BENCHMARK_GAMES =>
                          benchmarkHistory'[i].reason # "Unknown"
        /\ (lastOp' = "benchmark_init" /\ stockfish'.state = "failed") =>
               benchEvents' = Append(benchEvents, INIT_FAILED)
      ]_vars

\* C18: every step of the run_benchmark handler leaves the training board,
\* isRunning, the pending timers and the timer handle as they were, and the
\* benchmarked agent too: rating, counters, exploration rate, Q-table and
\* game history.
C18_BenchmarkLeavesTraining ==
    [][ lastOp' \in {"run_benchmark", "benchmark_init", "benchmark_engine_output",
                     "benchmark_engine_timeout"} =>
            /\ UNCHANGED <<chess, isRunning, pending, timer>>
            /\ whiteAI' = whiteAI
      ]_vars

-----------------------------------------------------------------------------
(* Properties of the key derivation (SpecKey) *)

sameBut(f, g, fields) == \A k \in fields : fenFields(f)[k] = fenFields(g)[k]

\* C19: two game states that agree in every FEN field but the half-move clock
\* and the full-move number get the same key from hashPosition and the same
\* key from simplifyFen.
C19_CountersIgnored ==
    (fenPair.derived /\ sameBut(fenPair.a, fenPair.b, 1..4)) =>
        (fenPair.keyA = fenPair.keyB /\ fenPair.bookA = fenPair.bookB)

\* two states that differ in both counters and in nothing else have one key
C19_Witness ==
    /\ fenPair.derived
    /\ sameBut(fenPair.a, fenPair.b, 1..4)
    /\ fenPair.a.halfmove # fenPair.b.halfmove
    /\ fenPair.a.fullmove # fenPair.b.fullmove
    /\ fenPair.keyA = fenPair.keyB
    /\ fenPair.bookA = fenPair.bookB

\* C20: two game states that agree in piece placement, side to move and
\* castling rights get the same key from hashPosition, whatever their other
\* fields are.
C20_ThreeFieldsDecide ==
    (fenPair.derived /\ sameBut(fenPair.a, fenPair.b, 1..3)) =>
        fenPair.keyA = fenPair.keyB

-----------------------------------------------------------------------------
(* Properties of the tree search (SpecSearch) *)

\* C22: on a position with exactly one legal move mcts returns that move
\* without creating a root node, expanding a child or running a simulation,
\* and on a position with no legal move it returns null.
C22_SingleMoveShortcut ==
    searchRun.done =>
        /\ Cardinality(searchRun.moves) = 1 =>
               /\ searchRun.move \in searchRun.moves
               /\ ~searchRun.root
               /\ searchRun.expanded = 0
               /\ searchRun.simulations = 0
        /\ searchRun.moves = {} => searchRun.move = NoMove

\* the search was called on a position whose only legal move is the mate
C22_Witness ==
    /\ searchRun.done
    /\ searchRun.moves = {MateMove}
    /\ searchRun.move = MateMove
    /\ ~searchRun.root
    /\ searchRun.simulations = 0

-----------------------------------------------------------------------------
(* Properties of the decision policy (SpecDecide) *)

mover(w, b) == IF turn(chess) = "w" THEN w ELSE b
returnedMove == chess'[Len(chess')]

\* C23: a decision that returns a book move, in any mode, leaves the game
\* histories of both agents as they were.
C23_BookMoveNotRecorded ==
    [][ lastOp' \in {"book", "book_gated"} =>
            /\ returnedMove = getBookMove(fen(chess))
            /\ whiteAI'.gameHistory = whiteAI.gameHistory
            /\ blackAI'.gameHistory = blackAI.gameHistory
      ]_vars

\* in a later game white, which has learned from a game, played a book move
\* in q-learning mode and its history is still empty
C23_Witness ==
    /\ lastOp = "book_gated"
    /\ whiteAI.mode = "q-learning"
    /\ whiteAI.gamesPlayed = 1
    /\ chess = <<QuietMove>>
    /\ whiteAI.gameHistory = <<>>

\* C24: in every mode a decision returns a book move only when the position
\* is in the opening book and the probability test against the exploration
\* rate has passed.
C24_BookMoveGated ==
    [][ lastOp' \in {"book", "book_gated"} =>
            /\ isInBook(fen(chess))
            /\ lastOp' = "book_gated"
      ]_vars

\* C25: a decision that returns a move which is not a book move pushes
\* exactly one entry on the mover's game history, made of the position key,
\* the returned move and evaluateMove of that move, and leaves the other
\* agent's history alone; no decision pushes more than one entry.
C25_OneEntryPerDecision ==
    [][ /\ lastOp' \in {"epsilon_greedy", "mcts"} =>
               /\ mover(whiteAI', blackAI').gameHistory =
                      Append(mover(whiteAI, blackAI).gameHistory,
                             [ positionHash |-> hashPosition(chess),
                               move         |-> returnedMove,
                               reward       |-> evaluateMove(returnedMove) ])
               /\ mover(blackAI', whiteAI') = mover(blackAI, whiteAI)
        /\ lastOp' \in {"book", "book_gated", "epsilon_greedy", "mcts", "no_move"} =>
               /\ Len(whiteAI'.gameHistory) <= Len(whiteAI.gameHistory) + 1
               /\ Len(blackAI'.gameHistory) <= Len(blackAI.gameHistory) + 1
      ]_vars

\* the book test failed on the starting position and the epsilon-greedy
\* choice took the mating reply one ply later: black holds that one entry
C25_Witness ==
    /\ lastOp = "epsilon_greedy"
    /\ chess = <<QuietMove, MateMove>>
    /\ Len(whiteAI.gameHistory) = 1
    /\ blackAI.gameHistory =
          <<[ positionHash |-> hashPosition(<<QuietMove>>), move |-> MateMove,
              reward |-> QUnit ]>>

-----------------------------------------------------------------------------
(* Properties of the handling of a finished game (Spec) *)

\* the game on the board is finished and the game-over branch of gameLoop
\* has run for it: the per-move times are cleared while the finished board
\* stays, and the last game record is the record of this board
boardHandled ==
    /\ isGameOver(chess)
    /\ moveTimesMs = <<>>
    /\ gameRecords # <<>>
    /\ gameRecords[Len(gameRecords)].moves = Len(chess)
    /\ gameRecords[Len(gameRecords)].result = winnerOf(chess)

\* C31: a finished game is handled once: after the game-over branch has run
\* for the game on the board, no start, pause, stop or timer callback updates
\* an agent's statistics or exploration rate or saves a game record for it
\* again; the agents and the game records stay as they are until the board
\* is reset.
C31_GameHandledOnce ==
    [][ (boardHandled /\ lastOp' \in {"start", "pause", "stop", "timer_move"}) =>
            /\ whiteAI' = whiteAI
            /\ blackAI' = blackAI
            /\ gameRecords' = gameRecords
      ]_vars

-----------------------------------------------------------------------------
(* Properties of the game histories consumed at the end of a game (Spec) *)

\* the entry h was recorded in the game on the board c by the side to move
recordedIn(h, c, side) ==
    \E i \in 0..(Len(c) - 1) :
        /\ turn(SubSeq(c, 1, i)) = side
        /\ h.positionHash = hashPosition(SubSeq(c, 1, i))
        /\ h.move = c[i + 1]

\* the agents with empty game histories
cleared(ai) == [ai EXCEPT !.gameHistory = <<>>]

\* C32: the entries a learning step consumes were recorded in the game that
\* has just ended: when the game-over branch of the loop runs, every entry of
\* an agent's game history is a move that agent made on the finished board;
\* and quick training leaves the Q-tables it would leave had both game
\* histories been empty when it started, so that entries of an abandoned
\* game are not credited with the outcome of its first game.
C32_TraceOfThisGame ==
    [][ /\ ( /\ lastOp' \in {"start", "timer_move", "timer_restart"}
             /\ whiteAI'.gamesPlayed = whiteAI.gamesPlayed + 1 ) =>
               /\ \A i \in 1..Len(whiteAI.gameHistory) :
                      recordedIn(whiteAI.gameHistory[i], chess', "w")
               /\ \A i \in 1..Len(blackAI.gameHistory) :
                      recordedIn(blackAI.gameHistory[i], chess', "b")
        /\ lastOp' = "quick_train" =>
               \E fin \in quickTrainLoop(
                              [ white |-> cleared(whiteAI), black |-> cleared(blackAI),
                                whiteWins |-> 0, blackWins |-> 0, draws |-> 0,
                                records |-> gameRecords ],
                              quickTrainEvents'.games) :
                   /\ whiteAI'.qTable = fin.white.qTable
                   /\ blackAI'.qTable = fin.black.qTable
      ]_vars

-----------------------------------------------------------------------------
(* Properties of games against a saved bot (SpecBot) *)

\* the game-over branch of the loop runs in this step
gameHandled ==
    /\ lastOp' \in {"start", "timer_move", "timer_restart"}
    /\ Len(gameRecords') = Len(gameRecords) + 1

\* every move black made on the board was chosen and recorded by the bot,
\* and the resident black agent holds no entry
botPlayedBlack ==
    /\ opponentBot # <<>>
    /\ blackAI.gameHistory = <<>>
    /\ \E i \in 1..Len(chess) : turn(SubSeq(chess, 1, i - 1)) = "b"
    /\ \A i \in 1..Len(chess) :
           turn(SubSeq(chess, 1, i - 1)) = "b" =>
               \E j \in 1..Len(opponentBot[1].gameHistory) :
                   /\ opponentBot[1].gameHistory[j].positionHash =
                          hashPosition(SubSeq(chess, 1, i - 1))
                   /\ opponentBot[1].gameHistory[j].move = chess[i]

\* C33: at the end of a game in which the loaded bot chose black's moves the
\* resident black agent is left as it was (rating, counters, streaks,
\* exploration rate) and the bot's game history is emptied, so that it does
\* not carry the game's entries into the next game.
C33_BotGameLeavesBlack ==
    [][ (gameHandled /\ botPlayedBlack) =>
            /\ blackAI' = blackAI
            /\ opponentBot' # <<>>
            /\ opponentBot'[1].gameHistory = <<>>
      ]_vars

-----------------------------------------------------------------------------
(* Properties of the backward propagation of learn (SpecLearn) *)

\* cumulativeReward when the loop of learn reaches entry i of the history:
\* the terminal reward at the last entry, and before each earlier entry the
\* reward of the entry after it plus 0.9 times the previous sum
RECURSIVE cumulativeAt(_, _, _)
cumulativeAt(history, i, result) ==
    IF i = Len(history) THEN finalReward(result)
    ELSE discounted(history[i + 1].reward, cumulativeAt(history, i + 1, result))

\* the value of (posHash, move) once the entries i..Len(history) have been
\* processed, stored being the value before the learning step
RECURSIVE valueFrom(_, _, _, _, _, _)
valueFrom(history, i, stored, posHash, move, result) ==
    IF i > Len(history) THEN stored
    ELSE LET v == valueFrom(history, i + 1, stored, posHash, move, result)
         IN  IF history[i].positionHash = posHash /\ history[i].move = move
             THEN learnedValue(v, cumulativeAt(history, i, result))
             ELSE v

\* C34: a learning step leaves, for every position and move, the value that
\* results from walking the game history from its last entry to its first:
\* each entry of that position and move replaces the current value v (0 when
\* none is stored) by v + 0.1 * (cumulativeReward - v), cumulativeReward
\* being the terminal reward (1.0, -1.0, 0.1) at the last entry and
\* reward + 0.9 * cumulativeReward before each earlier one; a pair that is
\* not in the history keeps its value.
C34_BackwardPropagation ==
    [][ lastOp' \in {"learn", "learn_again"} =>
            \E result \in Results :
                \A posHash \in LearnPositions :
                    \A move \in StoreMoves(posHash) :
                        getQValue(whiteAI', posHash, move) =
                            valueFrom(whiteAI.gameHistory, 1,
                                      getQValue(whiteAI, posHash, move),
                                      posHash, move, result)
      ]_vars

\* a won game in which e4 was recorded twice at position 1 and d4 once at
\* position 2 in between: the later e4 entry gave 0.1, the earlier one
\* 0.1 + 0.1 * (0.1 + 0.9 * 0.9 - 0.1) = 0.181, and d4 got 0.09
C34_Witness ==
    /\ lastOp = "learn"
    /\ whiteAI.gamesPlayed = 0
    /\ getQValue(whiteAI, 1, "e4") = 181
    /\ getQValue(whiteAI, 2, "d4") = 90
    /\ qMoves(whiteAI.qTable, 1)["e4"].visits = 2

-----------------------------------------------------------------------------
(* mcts.ts: the search tree.  The nodes of a search are a sequence of       *)
(* records; node 1 is the root, parent 0 is null, children holds the        *)
(* indices of the child nodes in the order they were pushed, and fen is     *)
(* the board of the node.                                                   *)

\* a rollout returns 0, 0.5 or 1; results and win sums are kept in halves
ResultUnit == 2

\* createNode(fen, move, parent)
createNode(c, move, parent) ==
    [ move         |-> move,
      parent       |-> parent,
      children     |-> <<>>,
      visits       |-> 0,
      wins         |-> 0,
      untriedMoves |-> legalMoves(c),
      fen          |-> c ]

\* ucb1(a) > ucb1(b) for two children a and b of a node with parentVisits
\* visits, in the cases integers decide: a node without visits has the value
\* Infinity; otherwise a is greater when its win rate is at least b's and
\* its visits are at most b's, one of the two strictly (the exploration term
\* sqrt(ln(parentVisits) / visits) grows as visits fall when
\* parentVisits >= 2)
ucb1Greater(a, b, parentVisits) ==
    \/ a.visits = 0 /\ b.visits # 0
    \/ /\ a.visits # 0
       /\ b.visits # 0
       /\ a.visits <= b.visits
       /\ a.wins * b.visits >= b.wins * a.visits
       /\ \/ a.wins * b.visits > b.wins * a.visits
          \/ a.visits < b.visits /\ parentVisits >= 2

\* ucb1(a) = ucb1(b), in the cases integers decide
ucb1Equal(a, b, parentVisits) ==
    \/ a.visits = 0 /\ b.visits = 0
    \/ a.visits # 0 /\ a.visits = b.visits /\ a.wins = b.wins
    \/ /\ a.visits # 0
       /\ b.visits # 0
       /\ parentVisits < 2
       /\ a.wins * b.visits = b.wins * a.visits

\* the loop of selectChild from child number k on, best being the best child
\* so far: a child replaces it when its ucb1 is strictly greater.  Where the
\* comparison needs the square root and the logarithm, both results are kept.
RECURSIVE scanChildren(_, _, _, _)
scanChildren(nodes, n, k, best) ==
    IF k > Len(nodes[n].children) THEN {best}
    ELSE LET child == nodes[n].children[k]
             pv    == Max(1, nodes[n].visits)
         IN  IF ucb1Greater(nodes[child], nodes[best], pv)
             THEN scanChildren(nodes, n, k + 1, child)
             ELSE IF \/ ucb1Greater(nodes[best], nodes[child], pv)
                     \/ ucb1Equal(nodes[best], nodes[child], pv)
             THEN scanChildren(nodes, n, k + 1, best)
             ELSE scanChildren(nodes, n, k + 1, child)
                    \cup scanChildren(nodes, n, k + 1, best)

\* selectChild(node): the children it can return
selectChild(nodes, n) == scanChildren(nodes, n, 2, nodes[n].children[1])

\* mutant: the selection goes down whenever the node has a child
RECURSIVE select_ignoreUntried(_, _)
select_ignoreUntried(nodes, n) ==
    IF nodes[n].children # <<>>
    THEN UNION { select_ignoreUntried(nodes, k) : k \in selectChild(nodes, n) }
    ELSE {n}

\* while (node.untriedMoves.length === 0 && node.children.length > 0)
\*     node = selectChild(node): the nodes the loop can end at, from node n
RECURSIVE select(_, _)
select(nodes, n) ==
    IF nodes[n].untriedMoves = {} /\ nodes[n].children # <<>>
    THEN UNION { select(nodes, k) : k \in selectChild(nodes, n) }
    ELSE {n}

\* expand(node) with the untried move that was drawn: the move leaves
\* untriedMoves and the new child is pushed on children
expand(nodes, n, move) ==
    Append([nodes EXCEPT ![n].untriedMoves = @ \ {move},
                         ![n].children = Append(@, Len(nodes) + 1)],
           createNode(Append(nodes[n].fen, move), move, n))

\* simulate(fen, originalTurn): the results the random playouts from the
\* board c can give (every playout of the rules oracle ends before
\* MAX_SIMULATION_DEPTH moves)
RECURSIVE simulate(_, _)
simulate(c, originalTurn) ==
    IF isGameOver(c)
    THEN { IF isCheckmate(c)
           THEN (IF turn(c) = originalTurn THEN 0 ELSE ResultUnit)
           ELSE ResultUnit \div 2 }
    ELSE UNION { simulate(Append(c, m), originalTurn) : m \in legalMoves(c) }

\* backpropagate(node, result)
RECURSIVE backpropagate(_, _, _)
backpropagate(nodes, n, result) ==
    IF n = 0 THEN nodes
    ELSE backpropagate([nodes EXCEPT ![n].visits = @ + 1, ![n].wins = @ + result],
                       nodes[n].parent,
                       ResultUnit - result)

\* the score of a root child in the final loop of mcts, times 10 * QUnit:
\* child.visits + qValueBias(child.move) * numSimulations * 0.1; qValueBias
\* is <<>> when the argument is left out, else <<the function>>
childScore(node, numSimulations, qValueBias) ==
    node.visits * 10 * QUnit
      + (IF qValueBias # <<>> THEN qValueBias[1][node.move] * numSimulations ELSE 0)

\* mutant: a later child with an equal score replaces the best child
RECURSIVE bestChild_lastWins(_, _, _, _, _)
bestChild_lastWins(nodes, k, best, numSimulations, qValueBias) ==
    IF k > Len(nodes[1].children) THEN best
    ELSE LET child == nodes[1].children[k]
         IN  bestChild_lastWins(
                 nodes, k + 1,
                 IF childScore(nodes[child], numSimulations, qValueBias)
                      >= childScore(nodes[best], numSimulations, qValueBias)
                 THEN child ELSE best,
                 numSimulations, qValueBias)

\* the final loop of mcts from root child number k on: bestScore starts at
\* -Infinity, so the first child is taken, and a later child replaces the
\* best one when its score is strictly greater
RECURSIVE bestChild(_, _, _, _, _)
bestChild(nodes, k, best, numSimulations, qValueBias) ==
    IF k > Len(nodes[1].children) THEN best
    ELSE LET child == nodes[1].children[k]
         IN  bestChild(
                 nodes, k + 1,
                 IF childScore(nodes[child], numSimulations, qValueBias)
                      > childScore(nodes[best], numSimulations, qValueBias)
                 THEN child ELSE best,
                 numSimulations, qValueBias)

\* the depth of node n: the root has depth 0
RECURSIVE nodeDepth(_, _)
nodeDepth(nodes, n) ==
    IF nodes[n].parent = 0 THEN 0 ELSE 1 + nodeDepth(nodes, nodes[n].parent)

\* the ancestor of node n at depth d
RECURSIVE ancestorAt(_, _, _)
ancestorAt(nodes, n, d) ==
    IF nodeDepth(nodes, n) = d THEN n ELSE ancestorAt(nodes, nodes[n].parent, d)

-----------------------------------------------------------------------------
(* SpecTree: one call of mcts on a board with several legal moves, from     *)
(* the creation of the root to the return of the best move, one pass of     *)
(* the simulation loop at a time                                            *)

\* the largest number of simulations of a call
MaxSimulations == 7

\* the boards the search is called on
TreeBoards == {<<>>, <<QuietMove>>, <<QuietMove, QuietMove>>}

\* the values qValueBias gives a move
BiasValues == {0, 3 * QUnit}

\* no pass of the loop has run
NoSimulation == [leaf |-> 0, result |-> 0, credit |-> <<>>]

TreeInit ==
    /\ whiteAI = newNeuralNetwork
    /\ blackAI = newNeuralNetwork
    /\ ManagerInit
    /\ fenPair = NoFenPair
    /\ moveIntervalMs = DEFAULT_INTERVAL
    /\ \E c \in TreeBoards, n \in 1..MaxSimulations,
          qValueBias \in {<<>>} \cup { <<f>> : f \in [legalMoves(<<>>) -> BiasValues] } :
          searchRun = [ fen            |-> c,
                        numSimulations |-> n,
                        qValueBias     |-> qValueBias,
                        nodes          |-> <<createNode(c, NoMove, 0)>>,
                        i              |-> 0,
                        last           |-> NoSimulation,
                        done           |-> FALSE,
                        move           |-> NoMove ]

\* what a pass added to the win sum of the node at each depth of its path,
\* as a sequence from the root (depth 0) to the leaf
creditOf(before, after, leaf) ==
    [ j \in 1..(nodeDepth(after, leaf) + 1) |->
        LET n == ancestorAt(after, leaf, j - 1)
        IN  after[n].wins - (IF n <= Len(before) THEN before[n].wins ELSE 0) ]

\* one pass of the for loop of mcts: selection, expansion, simulation,
\* backpropagation
TreeSimulate ==
    /\ ~searchRun.done
    /\ searchRun.i < searchRun.numSimulations
    /\ \E n \in select(searchRun.nodes, 1) :
         \E move \in IF searchRun.nodes[n].untriedMoves # {}
                     THEN searchRun.nodes[n].untriedMoves ELSE {NoMove} :
           LET expanded == IF move # NoMove THEN expand(searchRun.nodes, n, move)
                           ELSE searchRun.nodes
               leaf     == IF move # NoMove THEN Len(expanded) ELSE n
           IN  \E result \in simulate(expanded[leaf].fen, turn(searchRun.fen)) :
                 LET after == backpropagate(expanded, leaf, result)
                 IN  searchRun' =
                        [searchRun EXCEPT
                            !.nodes = after,
                            !.i     = @ + 1,
                            !.last  = [ leaf   |-> leaf,
                                        result |-> result,
                                        credit |-> creditOf(searchRun.nodes, after, leaf) ]]
    /\ lastOp' = "mcts_simulation"
    /\ UNCHANGED <<TrainingVars, apiCalls, BenchVars, fenPair, moveIntervalMs>>

\* the loop is over: the best root child is chosen and its move returned
TreeReturn ==
    /\ ~searchRun.done
    /\ searchRun.i = searchRun.numSimulations
    /\ searchRun' =
          [searchRun EXCEPT
              !.done = TRUE,
              !.move = searchRun.nodes[
                           bestChild(searchRun.nodes, 1, searchRun.nodes[1].children[1],
                                     searchRun.numSimulations, searchRun.qValueBias)
                       ].move]
    /\ lastOp' = "mcts"
    /\ UNCHANGED <<TrainingVars, apiCalls, BenchVars, fenPair, moveIntervalMs>>

TreeNext == TreeSimulate \/ TreeReturn

SpecTree == TreeInit /\ [][TreeNext]_vars

-----------------------------------------------------------------------------
(* Properties of the search tree (SpecTree) *)

\* the moves of the children of node n
childMoves(nodes, n) == { nodes[nodes[n].children[k]].move : k \in 1..Len(nodes[n].children) }

\* C35: a pass of the simulation loop goes below a node only when the node
\* has no untried move left; when the node it reaches has untried moves it
\* expands one of them, a move no child of the node has yet, and the new
\* child is visited once in that pass; so while a node has an untried move
\* each of its children has exactly one visit.
C35_ExpandBeforeReselect ==
    [][ lastOp' = "mcts_simulation" =>
            LET before == searchRun.nodes
                after  == searchRun'.nodes
                leaf   == searchRun'.last.leaf
            IN  /\ \A d \in 0..(nodeDepth(after, leaf) - 1) :
                       LET p == ancestorAt(after, leaf, d)
                       IN  before[p].untriedMoves # {} =>
                               /\ leaf = Len(before) + 1
                               /\ after[leaf].parent = p
                               /\ after[leaf].move \in before[p].untriedMoves
                               /\ after[leaf].move \notin childMoves(before, p)
                               /\ after[p].untriedMoves =
                                      before[p].untriedMoves \ {after[leaf].move}
                               /\ after[leaf].visits = 1
                /\ leaf <= Len(before) => before[leaf].untriedMoves = {}
                /\ \A n \in 1..Len(after) :
                       /\ Cardinality(childMoves(after, n)) = Len(after[n].children)
                       /\ after[n].untriedMoves # {} =>
                              \A k \in 1..Len(after[n].children) :
                                  after[after[n].children[k]].visits = 1
      ]_vars

\* both moves of the root were expanded in the first two passes, each child
\* with one visit; the third pass selected the first child again and
\* expanded a move below it
C35_Witness ==
    /\ lastOp = "mcts_simulation"
    /\ searchRun.i = 3
    /\ searchRun.nodes[1].untriedMoves = {}
    /\ Len(searchRun.nodes[1].children) = 2
    /\ searchRun.nodes[2].visits = 2
    /\ searchRun.nodes[3].visits = 1
    /\ searchRun.last.leaf = 4
    /\ searchRun.nodes[4].parent = 2
    /\ searchRun.nodes[2].untriedMoves # {}


\* C36: the move mcts returns after its simulations is the move of a root
\* child whose score, visits + qValueBias(move) * numSimulations * 0.1 with
\* a bias function and visits without one, is the largest among the root's
\* children, and no child pushed before it has the same score.
C36_BestChildReturned ==
    searchRun.done =>
        \E k \in 1..Len(searchRun.nodes[1].children) :
            LET best  == searchRun.nodes[1].children[k]
                score(n) ==
                    searchRun.nodes[n].visits * 10 * QUnit
                      + (IF searchRun.qValueBias = <<>> THEN 0
                         ELSE searchRun.qValueBias[1][searchRun.nodes[n].move]
                                * searchRun.numSimulations)
            IN  /\ searchRun.move = searchRun.nodes[best].move
                /\ \A j \in 1..Len(searchRun.nodes[1].children) :
                       LET other == searchRun.nodes[1].children[j]
                       IN  /\ score(other) <= score(best)
                           /\ j < k => score(other) < score(best)

\* without a bias function and with two simulations both root children have
\* one visit, and the move of the child pushed first was returned, here the
\* mating move
C36_Witness ==
    /\ searchRun.done
    /\ searchRun.qValueBias = <<>>
    /\ searchRun.numSimulations = 2
    /\ searchRun.nodes[2].visits = 1
    /\ searchRun.nodes[3].visits = 1
    /\ searchRun.nodes[2].move = MateMove
    /\ searchRun.move = MateMove


\* the amounts two passes with the results r1 and r2 added at one depth are
\* both the result itself or both its complement
samePerspective(a1, r1, a2, r2) ==
    \/ a1 = r1 /\ a2 = r2
    \/ a1 = ResultUnit - r1 /\ a2 = ResultUnit - r2

\* C37: what a pass adds to the win sum of the node at depth d of its path
\* is fixed by the rollout result and by d: for any two consecutive passes
\* of one search and any depth both paths reach, either both passes added
\* their result r there or both added 1 - r, whatever the depths of the
\* leaves the rollouts started from.
C37_ConsistentPerspective ==
    [][ (lastOp' = "mcts_simulation" /\ searchRun.last.leaf # 0) =>
            \A j \in DOMAIN searchRun.last.credit \cap DOMAIN searchRun'.last.credit :
                samePerspective(searchRun.last.credit[j], searchRun.last.result,
                                searchRun'.last.credit[j], searchRun'.last.result)
      ]_vars

-----------------------------------------------------------------------------
(* Properties of the move a decision returns (SpecDecide) *)

-----------------------------------------------------------------------------
(* Properties of the counters of the two agents (Spec) *)

\* C39: from two new agents, whatever games the loop and quick training
\* have finished, each agent's wins, losses and draws add up to its
\* gamesPlayed, the two agents have the same gamesPlayed and the same draws,
\* and the wins of each are the losses of the other.
C39_CountersZeroSum ==
    /\ whiteAI.wins + whiteAI.losses + whiteAI.draws = whiteAI.gamesPlayed
    /\ blackAI.wins + blackAI.losses + blackAI.draws = blackAI.gamesPlayed
    /\ whiteAI.gamesPlayed = blackAI.gamesPlayed
    /\ whiteAI.draws = blackAI.draws
    /\ whiteAI.wins = blackAI.losses
    /\ blackAI.wins = whiteAI.losses

\* the loop finished a game that black won (it wrote the learning snapshot),
\* and a quick training of one game that white won has returned
C39_Witness ==
    /\ lastOp = "quick_train"
    /\ quickTrainEvents.games = 1
    /\ quickTrainEvents.whiteWins = 1
    /\ Len(learningSnapshots) = 1
    /\ whiteAI.gamesPlayed = 2
    /\ whiteAI.wins = 1
    /\ whiteAI.losses = 1
    /\ blackAI.wins = 1

-----------------------------------------------------------------------------
(* SpecImport: one agent that loads a snapshot and then updates its         *)
(* Q-table, as the learning step does through setQValue                     *)

\* the numbers of positions in the snapshots that are loaded: none, as many
\* as a table can hold, and more
SnapshotSizes == {0, MAX_POSITIONS, MAX_POSITIONS + 2}

\* a snapshot file whose qTable has the positions 1..n, each with one move
\* that was visited once
snapshotOf(n) ==
    [ exportState(newNeuralNetwork) EXCEPT
        !.qTable = [ i \in 1..n |->
                       [pos |-> i, moves |-> ("e4" :> [value |-> 0, visits |-> 1])] ] ]

\* a position that is not in the table
UnseenPosition == 1 + Len(whiteAI.qTable) + MAX_POSITIONS + apiCalls

\* importState(state) on a new agent
ImportSnapshot ==
    /\ apiCalls = 0
    /\ \E n \in SnapshotSizes : whiteAI' = importState(whiteAI, snapshotOf(n))
    /\ apiCalls' = 1
    /\ lastOp' = "importState"
    /\ UNCHANGED <<blackAI, ManagerVars, fenPair, moveIntervalMs, searchRun>>

\* setQValue on the restored agent
ImportUpdate ==
    /\ apiCalls \in 1..MaxCalls
    /\ \E posHash \in qKeys(whiteAI.qTable) \cup {UnseenPosition} :
          whiteAI' = setQValue(whiteAI, posHash, "e4", QUnit)
    /\ apiCalls' = apiCalls + 1
    /\ lastOp' = "setQValue"
    /\ UNCHANGED <<blackAI, ManagerVars, fenPair, moveIntervalMs, searchRun>>

ImportNext == ImportSnapshot \/ ImportUpdate

SpecImport == StoreInit /\ [][ImportNext]_vars

\* C40: after a snapshot has been loaded, every update of the Q-table
\* leaves it with at most MAX_POSITIONS positions.
C40_RestoredStoreBounded ==
    lastOp = "setQValue" => Cardinality(qKeys(whiteAI.qTable)) <= MAX_POSITIONS

=============================================================================
